---- MODULE Spec2Model ----
(***************************************************************************)
(* Model of the quantitative engine of macro-trader: the macro scoring     *)
(* (lib/scoring), the Black-Scholes-Merton pricer with its strike          *)
(* bisection (lib/bsm) and the position sizer / portfolio generator        *)
(* (lib/portfolio).                                                        *)
(*                                                                         *)
(* Numbers.  The source computes in IEEE doubles.  The model computes in   *)
(* decimal fixed point on 32-bit integers:                                 *)
(*   - dimensionless reals (volatility, time, rate, d1, delta, N(x)) are   *)
(*     integers in units of 1/ONE;                                         *)
(*   - a strike is carried as the ratio strike/spot in units of 1/ONE      *)
(*     (d1 depends on spot and strike through spot/strike only, and the    *)
(*     search bracket is 0.5*spot..spot or spot..1.5*spot);                *)
(*   - spot prices are in tenths of a dollar, multipliers in tenths,       *)
(*     notional values in cents, premiums and buying power in 1/10000 $;   *)
(*   - scores are in tenths.                                               *)
(***************************************************************************)
EXTENDS Integers, Sequences, FiniteSets, TLC

VARIABLES
    pc,             \* which operation is running and where it stands
    search,         \* locals of findStrikeForDelta (bsm.ts:59-99)
    sizing,         \* arguments and result of calculateNumberOfLots
    macroData,      \* the MacroData snapshot given to calculateAssetClassScores
    scores,         \* AssetClassScore[] returned by calculateAssetClassScores
    assetDataList,  \* AssetData[] given to generatePortfolio
    idx,            \* position of generatePortfolio's for-loop
    strategies,     \* OptionStrategy[] built by generatePortfolio
    metrics,        \* result of calculatePortfolioMetrics (portfolio.ts:225-240)
    pricing,        \* arguments and results of calculateOptionPrice
    page,           \* AssetDataPage: form rows, table rows, error, onComplete
    app,            \* App: user, currentPage, currentSnapshotId, pending calls
    factor          \* arguments and results of the five factor functions

vars == <<pc, search, sizing, macroData, scores, assetDataList, idx, strategies,
          metrics, pricing, page, app, factor>>

----------------------------------------------------------------------------
(* Fixed-point arithmetic standing for the source's double arithmetic.     *)

ONE == 1000000
LIMB == 1000

Abs(x) == IF x < 0 THEN -x ELSE x

Min(a, b) == IF a < b THEN a ELSE b

Max(a, b) == IF a > b THEN a ELSE b

\* a * b for a, b >= 0 in units of 1/ONE, by limbs so that no partial
\* product leaves 32 bits.
MulAbs(a, b) ==
    LET ah == a \div LIMB
        al == a % LIMB
        bh == b \div LIMB
        bl == b % LIMB
    IN  (ah * bh) + (((ah * bl) + (al * bh) + ((al * bl) \div LIMB)) \div LIMB)

MulFix(a, b) ==
    IF (a < 0) # (b < 0) THEN -MulAbs(Abs(a), Abs(b)) ELSE MulAbs(Abs(a), Abs(b))

RECURSIVE DivDigits(_, _, _)
DivDigits(r, b, n) ==
    IF n = 0 THEN 0
    ELSE (((r * 10) \div b) * (10 ^ (n - 1))) + DivDigits((r * 10) % b, b, n - 1)

\* a / b in units of 1/ONE, by long division (six decimal digits).
DivAbs(a, b) == ((a \div b) * ONE) + DivDigits(a % b, b, 6)

DivFix(a, b) ==
    IF (a < 0) # (b < 0) THEN -DivAbs(Abs(a), Abs(b)) ELSE DivAbs(Abs(a), Abs(b))

\* <<quotient, remainder>> of r * k by c for 0 <= r < c < 2^30 and 0 <= k <= LIMB,
\* exact: the quotient is the number of multiples j * c that r * k reaches, and
\* r * k itself is never formed.
MulSmallDivRem(r, k, c) ==
    IF k = 0 THEN <<0, 0>>
    ELSE LET d == Cardinality({j \in 1..(k - 1) :
                                  r >= (j * (c \div k)) + (((j * (c % k)) + k - 1) \div k)})
         IN  <<d, (k * (r - (d * (c \div k)))) - (d * (c % k))>>

\* <<quotient, remainder>> of a * b by c for 0 <= a < c < 2^30 and b >= 0, exact,
\* one limb of b at a time so that a * b itself is never formed.
RECURSIVE MulDivRem(_, _, _)
MulDivRem(a, b, c) ==
    IF b = 0 THEN <<0, 0>>
    ELSE LET h == MulDivRem(a, b \div LIMB, c)
             s == MulSmallDivRem(h[2], LIMB, c)
             t == MulSmallDivRem(a, b % LIMB, c)
             r == s[2] + t[2]
         IN  IF r >= c THEN <<(LIMB * h[1]) + s[1] + t[1] + 1, r - c>>
             ELSE <<(LIMB * h[1]) + s[1] + t[1], r>>

\* floor(a * b / c) for a, b >= 0 and 0 < c < 2^30, exact.
MulDiv(a, b, c) == ((a \div c) * b) + MulDivRem(a % c, b, c)[1]

\* Math.sqrt: Newton's iteration from 1.
RECURSIVE SqrtIter(_, _, _)
SqrtIter(a, x, n) ==
    IF n = 0 THEN x ELSE SqrtIter(a, (x + DivFix(a, x)) \div 2, n - 1)

Sqrt(a) == SqrtIter(a, ONE, 12)

\* Math.exp(-u) for 0 <= u <= 1/2: the alternating Taylor series, ten terms.
RECURSIVE ExpSeries(_, _, _, _)
ExpSeries(u, term, n, acc) ==
    IF n > 10 THEN acc
    ELSE LET t == MulFix(term, u) \div n
         IN  ExpSeries(u, t, n + 1, IF n % 2 = 1 THEN acc - t ELSE acc + t)

\* Math.exp(-y) for y >= 0: halve the argument down to 1/2 and square back;
\* exp(-18) is below the resolution 1/ONE.
RECURSIVE ExpNeg(_)
ExpNeg(y) ==
    IF y >= 18 * ONE THEN 0
    ELSE IF y <= ONE \div 2 THEN ExpSeries(y, ONE, 1, ONE)
    ELSE LET h == ExpNeg(y \div 2) IN MulFix(h, h)

\* Math.log(x) = 2 atanh((x - 1) / (x + 1)), the odd series up to z^13.
RECURSIVE LnSeries(_, _, _, _)
LnSeries(z2, pw, n, acc) ==
    IF n > 13 THEN acc
    ELSE LnSeries(z2, MulFix(pw, z2), n + 2, acc + (pw \div n))

Ln(x) ==
    LET z == DivFix(x - ONE, x + ONE)
    IN  2 * LnSeries(MulFix(z, z), z, 1, 0)

----------------------------------------------------------------------------
(* lib/bsm.ts                                                              *)

\* N(x): the source's polynomial approximation; its coefficients are the
\* source's, rounded to the resolution 1/ONE.  exp(-x*x/2) is below that
\* resolution from |x| = 6 on.
normalCDF(x) ==
    LET t == DivFix(ONE, ONE + MulFix(231642, Abs(x)))
        d == IF Abs(x) < 6 * ONE
             THEN MulFix(398942, ExpNeg(MulFix(x, x) \div 2))
             ELSE 0
        prob == MulFix(MulFix(d, t),
                    319382 + MulFix(t, -356564 + MulFix(t, 1781478
                        + MulFix(t, -1821256 + MulFix(t, 1330274)))))
    IN  IF x > 0 THEN ONE - prob ELSE prob

\* d1 of calculateOptionPrice and calculateDelta; strikePrice is strike/spot,
\* so spot/strike is ONE/strikePrice.
D1(strikePrice, timeToExpiry, riskFreeRate, volatility) ==
    DivFix(Ln(DivFix(ONE, strikePrice))
             + MulFix(riskFreeRate + (MulFix(volatility, volatility) \div 2), timeToExpiry),
           MulFix(volatility, Sqrt(timeToExpiry)))

\* The price per unit of spot (the source's price divided by spotPrice).
calculateOptionPrice(strikePrice, timeToExpiry, riskFreeRate, volatility, optionType) ==
    LET d1 == D1(strikePrice, timeToExpiry, riskFreeRate, volatility)
        d2 == d1 - MulFix(volatility, Sqrt(timeToExpiry))
        discounted == MulFix(strikePrice, ExpNeg(MulFix(riskFreeRate, timeToExpiry)))
    IN  IF optionType = "call"
        THEN normalCDF(d1) - MulFix(discounted, normalCDF(d2))
        ELSE MulFix(discounted, normalCDF(-d2)) - normalCDF(-d1)

calculateDelta(strikePrice, timeToExpiry, riskFreeRate, volatility, optionType) ==
    LET d1 == D1(strikePrice, timeToExpiry, riskFreeRate, volatility)
    IN  IF optionType = "call" THEN normalCDF(d1) ELSE normalCDF(d1) - ONE

maxIterations == 100
tolerance == 1000

\* (lowerBound + upperBound) / 2, rounded to the nearest representable value,
\* ties to even, as an IEEE division by 2 rounds.
Midpoint(lowerBound, upperBound) ==
    LET sum == lowerBound + upperBound
        q == sum \div 2
    IN  IF sum % 2 = 0 \/ q % 2 = 0 THEN q ELSE q + 1

\* SearchStart with the put bracket reaching up to 1.5 x spot.
SearchStartWide(targetDelta, timeToExpiry, riskFreeRate, volatility, optionType) ==
    [ optionType    |-> optionType,
      timeToExpiry  |-> timeToExpiry,
      riskFreeRate  |-> riskFreeRate,
      volatility    |-> volatility,
      adjustedDelta |-> IF optionType = "put" THEN -Abs(targetDelta) ELSE Abs(targetDelta),
      lowerBound    |-> IF optionType = "put" THEN ONE \div 2 ELSE ONE,
      upperBound    |-> ONE + (ONE \div 2),
      i             |-> 0,
      returned      |-> FALSE,
      strike        |-> 0 ]

\* The locals of findStrikeForDelta before its loop (bsm.ts:67-73).
SearchStart(targetDelta, timeToExpiry, riskFreeRate, volatility, optionType) ==
    [ optionType    |-> optionType,
      timeToExpiry  |-> timeToExpiry,
      riskFreeRate  |-> riskFreeRate,
      volatility    |-> volatility,
      adjustedDelta |-> IF optionType = "put" THEN -Abs(targetDelta) ELSE Abs(targetDelta),
      lowerBound    |-> IF optionType = "put" THEN ONE \div 2 ELSE ONE,
      upperBound    |-> IF optionType = "put" THEN ONE ELSE ONE + (ONE \div 2),
      i             |-> 0,
      returned      |-> FALSE,
      strike        |-> 0 ]

\* SearchStep moving a call's bracket the other way.
SearchStepCallReversed(s) ==
    LET midStrike == Midpoint(s.lowerBound, s.upperBound)
        currentDelta == calculateDelta(midStrike, s.timeToExpiry, s.riskFreeRate,
                                       s.volatility, s.optionType)
    IN  IF s.i >= maxIterations
        THEN [s EXCEPT !.returned = TRUE, !.strike = midStrike]
        ELSE IF Abs(currentDelta - s.adjustedDelta) < tolerance
        THEN [s EXCEPT !.returned = TRUE, !.strike = midStrike]
        ELSE IF s.optionType = "put"
        THEN IF currentDelta < s.adjustedDelta
             THEN [s EXCEPT !.upperBound = midStrike, !.i = s.i + 1]
             ELSE [s EXCEPT !.lowerBound = midStrike, !.i = s.i + 1]
        ELSE IF currentDelta > s.adjustedDelta
             THEN [s EXCEPT !.upperBound = midStrike, !.i = s.i + 1]
             ELSE [s EXCEPT !.lowerBound = midStrike, !.i = s.i + 1]

\* SearchStep returning as soon as the delta is within 20 tolerances.
SearchStepLoose(s) ==
    LET midStrike == Midpoint(s.lowerBound, s.upperBound)
        currentDelta == calculateDelta(midStrike, s.timeToExpiry, s.riskFreeRate,
                                       s.volatility, s.optionType)
    IN  IF s.i >= maxIterations
        THEN [s EXCEPT !.returned = TRUE, !.strike = midStrike]
        ELSE IF Abs(currentDelta - s.adjustedDelta) < 20 * tolerance
        THEN [s EXCEPT !.returned = TRUE, !.strike = midStrike]
        ELSE IF s.optionType = "put"
        THEN IF currentDelta < s.adjustedDelta
             THEN [s EXCEPT !.upperBound = midStrike, !.i = s.i + 1]
             ELSE [s EXCEPT !.lowerBound = midStrike, !.i = s.i + 1]
        ELSE IF currentDelta > s.adjustedDelta
             THEN [s EXCEPT !.lowerBound = midStrike, !.i = s.i + 1]
             ELSE [s EXCEPT !.upperBound = midStrike, !.i = s.i + 1]

\* SearchStep giving up after 10 passes instead of maxIterations.
SearchStepShortCap(s) ==
    LET midStrike == Midpoint(s.lowerBound, s.upperBound)
        currentDelta == calculateDelta(midStrike, s.timeToExpiry, s.riskFreeRate,
                                       s.volatility, s.optionType)
    IN  IF s.i >= 10
        THEN [s EXCEPT !.returned = TRUE, !.strike = midStrike]
        ELSE IF Abs(currentDelta - s.adjustedDelta) < tolerance
        THEN [s EXCEPT !.returned = TRUE, !.strike = midStrike]
        ELSE IF s.optionType = "put"
        THEN IF currentDelta < s.adjustedDelta
             THEN [s EXCEPT !.upperBound = midStrike, !.i = s.i + 1]
             ELSE [s EXCEPT !.lowerBound = midStrike, !.i = s.i + 1]
        ELSE IF currentDelta > s.adjustedDelta
             THEN [s EXCEPT !.lowerBound = midStrike, !.i = s.i + 1]
             ELSE [s EXCEPT !.upperBound = midStrike, !.i = s.i + 1]

\* One pass of the for-loop (bsm.ts:75-96), or the return after it (bsm.ts:98).
SearchStep(s) ==
    LET midStrike == Midpoint(s.lowerBound, s.upperBound)
        currentDelta == calculateDelta(midStrike, s.timeToExpiry, s.riskFreeRate,
                                       s.volatility, s.optionType)
    IN  IF s.i >= maxIterations
        THEN [s EXCEPT !.returned = TRUE, !.strike = midStrike]
        ELSE IF Abs(currentDelta - s.adjustedDelta) < tolerance
        THEN [s EXCEPT !.returned = TRUE, !.strike = midStrike]
        ELSE IF s.optionType = "put"
        THEN IF currentDelta < s.adjustedDelta
             THEN [s EXCEPT !.upperBound = midStrike, !.i = s.i + 1]
             ELSE [s EXCEPT !.lowerBound = midStrike, !.i = s.i + 1]
        ELSE IF currentDelta > s.adjustedDelta
             THEN [s EXCEPT !.lowerBound = midStrike, !.i = s.i + 1]
             ELSE [s EXCEPT !.upperBound = midStrike, !.i = s.i + 1]

\* The loop from s for at most n passes, ending early when it returns: the
\* first half of the passes, then the others from where those ended.
RECURSIVE SearchPasses(_, _)
SearchPasses(s, n) ==
    IF s.returned \/ n = 0 THEN s
    ELSE IF n = 1 THEN SearchStep(s)
    ELSE CHOOSE r \in {SearchPasses(half, n - (n \div 2)) :
                           half \in {SearchPasses(s, n \div 2)}} : TRUE

\* The whole loop and the return after it: maxIterations passes and one more.
SearchRun(s) == SearchPasses(s, maxIterations + 1)

\* The strike per unit of spot (the source's strike divided by spotPrice).
findStrikeForDelta(targetDelta, timeToExpiry, riskFreeRate, volatility, optionType) ==
    SearchRun(SearchStart(targetDelta, timeToExpiry, riskFreeRate, volatility,
                          optionType)).strike

----------------------------------------------------------------------------
(* lib/scoring.ts (in components/OptionsStrategyPage.tsx)                  *)
(* Factor scores are in hundredths, reported scores in tenths.             *)

ASSET_CLASSES ==
    << "Equity Indices", "Precious Metals", "Energy", "Industrial Metals",
       "Agriculture", "Cryptocurrency" >>

\* String.prototype.toLowerCase on the strings the model feeds in.
toLowerCase(str) ==
    CASE str = "Expansion" -> "expansion"
      [] str = "CRISIS" -> "crisis"
      [] str = "Cheap" -> "cheap"
      [] str = "Bullish" -> "bullish"
      [] OTHER -> str

\* Array.prototype.find: the first element satisfying Test, as a sequence of
\* at most one element (empty for undefined).
RECURSIVE FindFrom(_, _, _)
FindFrom(seq, Test(_), k) ==
    IF k > Len(seq) THEN << >>
    ELSE IF Test(seq[k]) THEN << seq[k] >>
    ELSE FindFrom(seq, Test, k + 1)

find(seq, Test(_)) == FindFrom(seq, Test, 1)

\* getBusinessCycleScore keeping the sign of the base for Precious Metals.
getBusinessCycleScoreSigned(cycle, assetClass) ==
    LET c == toLowerCase(cycle)
        baseScore == CASE c = "expansion" -> 2
                       [] c = "peak" -> 1
                       [] c = "contraction" -> -2
                       [] c = "trough" -> -1
                       [] OTHER -> 0
    IN  IF assetClass = "Equity Indices" THEN baseScore * 100
        ELSE IF assetClass = "Fixed Income" THEN (-baseScore) * 100
        ELSE IF assetClass = "Precious Metals" THEN baseScore * 50
        ELSE baseScore * 80

getBusinessCycleScore(cycle, assetClass) ==
    LET c == toLowerCase(cycle)
        baseScore == CASE c = "expansion" -> 2
                       [] c = "peak" -> 1
                       [] c = "contraction" -> -2
                       [] c = "trough" -> -1
                       [] OTHER -> 0
    IN  IF assetClass = "Equity Indices" THEN baseScore * 100
        ELSE IF assetClass = "Fixed Income" THEN (-baseScore) * 100
        ELSE IF assetClass = "Precious Metals"
        THEN IF baseScore < 0 THEN (-baseScore) * 50 ELSE baseScore * 50
        ELSE baseScore * 80

\* getLiquidityScore keeping the sign of the base for Precious Metals.
getLiquidityScoreSigned(liquidity, assetClass) ==
    LET l == toLowerCase(liquidity)
        baseScore == CASE l = "abundant" -> 3
                       [] l = "adequate" -> 1
                       [] l = "tight" -> -2
                       [] l = "crisis" -> -3
                       [] OTHER -> 0
    IN  IF assetClass = "Cryptocurrency" THEN baseScore * 150
        ELSE baseScore * 100

\* getLiquidityScore without the 1.5 scaling of Cryptocurrency.
getLiquidityScoreUnscaled(liquidity, assetClass) ==
    LET l == toLowerCase(liquidity)
        baseScore == CASE l = "abundant" -> 3
                       [] l = "adequate" -> 1
                       [] l = "tight" -> -2
                       [] l = "crisis" -> -3
                       [] OTHER -> 0
    IN  IF assetClass = "Precious Metals" /\ baseScore < 0 THEN Abs(baseScore) * 100
        ELSE baseScore * 100

getLiquidityScore(liquidity, assetClass) ==
    LET l == toLowerCase(liquidity)
        baseScore == CASE l = "abundant" -> 3
                       [] l = "adequate" -> 1
                       [] l = "tight" -> -2
                       [] l = "crisis" -> -3
                       [] OTHER -> 0
    IN  IF assetClass = "Precious Metals" /\ baseScore < 0 THEN Abs(baseScore) * 100
        ELSE IF assetClass = "Cryptocurrency" THEN baseScore * 150
        ELSE baseScore * 100

\* getInterestRateScore falling back on the first record when there is none
\* for USA.
getInterestRateScoreAnyCountry(rates, assetClass) ==
    LET IsUSA(r) == r.country = "USA"
        usRate == IF find(rates, IsUSA) = << >> /\ rates # << >>
                  THEN << rates[1] >>
                  ELSE find(rates, IsUSA)
    IN  IF usRate = << >> THEN 0
        ELSE LET score == IF usRate[1].direction = "falling" \/ usRate[1].policy = "QE"
                          THEN 2
                          ELSE IF usRate[1].direction = "rising" \/ usRate[1].policy = "QT"
                          THEN -2
                          ELSE 0
             IN  IF assetClass = "Fixed Income" THEN (-score) * 100
                 ELSE IF assetClass = "Equity Indices" THEN score * 100
                 ELSE IF assetClass = "Precious Metals" THEN score * 120
                 ELSE score * 70

\* getInterestRateScore testing rising / QT before falling / QE.
getInterestRateScoreTighteningFirst(rates, assetClass) ==
    LET IsUSA(r) == r.country = "USA"
        usRate == find(rates, IsUSA)
    IN  IF usRate = << >> THEN 0
        ELSE LET score == IF usRate[1].direction = "rising" \/ usRate[1].policy = "QT"
                          THEN -2
                          ELSE IF usRate[1].direction = "falling" \/ usRate[1].policy = "QE"
                          THEN 2
                          ELSE 0
             IN  IF assetClass = "Fixed Income" THEN (-score) * 100
                 ELSE IF assetClass = "Equity Indices" THEN score * 100
                 ELSE IF assetClass = "Precious Metals" THEN score * 120
                 ELSE score * 70

getInterestRateScore(rates, assetClass) ==
    LET IsUSA(r) == r.country = "USA"
        usRate == find(rates, IsUSA)
    IN  IF usRate = << >> THEN 0
        ELSE LET score == IF usRate[1].direction = "falling" \/ usRate[1].policy = "QE"
                          THEN 2
                          ELSE IF usRate[1].direction = "rising" \/ usRate[1].policy = "QT"
                          THEN -2
                          ELSE 0
             IN  IF assetClass = "Fixed Income" THEN (-score) * 100
                 ELSE IF assetClass = "Equity Indices" THEN score * 100
                 ELSE IF assetClass = "Precious Metals" THEN score * 120
                 ELSE score * 70

\* getValuationScore without the test of the class.
getValuationScoreAnyClass(valuations, assetClass) ==
    LET IsSP(v) == v.index = "S&P 500"
        spValuation == find(valuations, IsSP)
    IN  IF spValuation = << >> THEN 0
        ELSE LET level == toLowerCase(spValuation[1].level)
             IN  CASE level = "cheap" -> 200
                   [] level = "fair" -> 0
                   [] level = "expensive" -> -200
                   [] OTHER -> 0

getValuationScore(valuations, assetClass) ==
    IF assetClass # "Equity Indices" THEN 0
    ELSE LET IsSP(v) == v.index = "S&P 500"
             spValuation == find(valuations, IsSP)
         IN  IF spValuation = << >> THEN 0
             ELSE LET level == toLowerCase(spValuation[1].level)
                  IN  CASE level = "cheap" -> 200
                        [] level = "fair" -> 0
                        [] level = "expensive" -> -200
                        [] OTHER -> 0

assetCommodityMap(assetClass) ==
    CASE assetClass = "Precious Metals" -> << "Gold", "Silver" >>
      [] assetClass = "Energy" -> << "Crude Oil", "Natural Gas" >>
      [] assetClass = "Industrial Metals" -> << "Copper" >>
      [] assetClass = "Agriculture" -> << "Wheat" >>
      [] OTHER -> << >>

biasMap(bias) ==
    LET b == toLowerCase(bias)
    IN  CASE b = "bullish" -> 2
          [] b = "neutral" -> 0
          [] b = "bearish" -> -2
          [] OTHER -> 0

\* The for-loop of getCommodityScore from position k: <<totalScore, count>>.
RECURSIVE CommodityLoop(_, _, _, _, _)
CommodityLoop(commodities, relevantCommodities, k, totalScore, count) ==
    IF k > Len(relevantCommodities) THEN << totalScore, count >>
    ELSE LET IsComm(c) == c.name = relevantCommodities[k]
             comm == find(commodities, IsComm)
         IN  IF comm # << >>
             THEN CommodityLoop(commodities, relevantCommodities, k + 1,
                                totalScore + biasMap(comm[1].bias), count + 1)
             ELSE CommodityLoop(commodities, relevantCommodities, k + 1,
                                totalScore, count)

\* getCommodityScore returning the sum of the bias values.
getCommodityScoreTotal(commodities, assetClass) ==
    LET relevantCommodities == assetCommodityMap(assetClass)
    IN  IF relevantCommodities = << >> THEN 0
        ELSE CommodityLoop(commodities, relevantCommodities, 1, 0, 0)[1] * 100

\* getCommodityScore dividing by the number of mapped commodities.
getCommodityScoreOverMapped(commodities, assetClass) ==
    LET relevantCommodities == assetCommodityMap(assetClass)
    IN  IF relevantCommodities = << >> THEN 0
        ELSE LET r == CommodityLoop(commodities, relevantCommodities, 1, 0, 0)
             IN  IF r[2] > 0 THEN (r[1] * 100) \div Len(relevantCommodities) ELSE 0

\* totalScore / count: totalScore is even and count is 1 or 2, so the
\* quotient is exact in hundredths.
getCommodityScore(commodities, assetClass) ==
    LET relevantCommodities == assetCommodityMap(assetClass)
    IN  IF relevantCommodities = << >> THEN 0
        ELSE LET r == CommodityLoop(commodities, relevantCommodities, 1, 0, 0)
             IN  IF r[2] > 0 THEN (r[1] * 100) \div r[2] ELSE 0

\* determineSignal with the thresholds at +2 and -2.
determineSignalAtTwo(totalScore) ==
    IF totalScore >= 200 THEN "buy"
    ELSE IF totalScore <= -200 THEN "sell"
    ELSE "neutral"

\* determineSignal with strict comparisons.
determineSignalStrict(totalScore) ==
    IF totalScore > 500 THEN "buy"
    ELSE IF totalScore < -500 THEN "sell"
    ELSE "neutral"

determineSignal(totalScore) ==
    IF totalScore >= 500 THEN "buy"
    ELSE IF totalScore <= -500 THEN "sell"
    ELSE "neutral"

\* Math.round(x * 10) / 10 of a score in hundredths: the result in tenths
\* (Math.round rounds half up).
RoundToTenth(x) == (x + 5) \div 10

\* AssetClassScoreOf reporting the total rounded to a whole number.
AssetClassScoreOfWholeTotal(macro, assetClass) ==
    LET businessCycleScore == getBusinessCycleScore(macro.businessCycle, assetClass)
        liquidityScore == getLiquidityScore(macro.globalLiquidity, assetClass)
        interestRateScore == getInterestRateScore(macro.interestRates, assetClass)
        valuationScore == getValuationScore(macro.valuations, assetClass)
        commodityScore == getCommodityScore(macro.commodities, assetClass)
        totalScore == businessCycleScore + liquidityScore + interestRateScore
                        + valuationScore + commodityScore
    IN  [ assetClass         |-> assetClass,
          businessCycleScore |-> RoundToTenth(businessCycleScore),
          liquidityScore     |-> RoundToTenth(liquidityScore),
          interestRateScore  |-> RoundToTenth(interestRateScore),
          valuationScore     |-> RoundToTenth(valuationScore),
          commodityScore     |-> RoundToTenth(commodityScore),
          totalScore         |-> ((totalScore + 50) \div 100) * 10,
          signal             |-> determineSignal(totalScore) ]

AssetClassScoreOf(macro, assetClass) ==
    LET businessCycleScore == getBusinessCycleScore(macro.businessCycle, assetClass)
        liquidityScore == getLiquidityScore(macro.globalLiquidity, assetClass)
        interestRateScore == getInterestRateScore(macro.interestRates, assetClass)
        valuationScore == getValuationScore(macro.valuations, assetClass)
        commodityScore == getCommodityScore(macro.commodities, assetClass)
        totalScore == businessCycleScore + liquidityScore + interestRateScore
                        + valuationScore + commodityScore
    IN  [ assetClass         |-> assetClass,
          businessCycleScore |-> RoundToTenth(businessCycleScore),
          liquidityScore     |-> RoundToTenth(liquidityScore),
          interestRateScore  |-> RoundToTenth(interestRateScore),
          valuationScore     |-> RoundToTenth(valuationScore),
          commodityScore     |-> RoundToTenth(commodityScore),
          totalScore         |-> RoundToTenth(totalScore),
          signal             |-> determineSignal(totalScore) ]

\* calculateAssetClassScores leaving out the last class of ASSET_CLASSES.
calculateAssetClassScoresButLast(macro) ==
    [ k \in 1..(Len(ASSET_CLASSES) - 1) |-> AssetClassScoreOf(macro, ASSET_CLASSES[k]) ]

calculateAssetClassScores(macro) ==
    [ k \in 1..Len(ASSET_CLASSES) |-> AssetClassScoreOf(macro, ASSET_CLASSES[k]) ]

\* getStrategyType with the strategies of buy and sell exchanged.
getStrategyTypeSwapped(signal) ==
    IF signal = "buy" THEN "short_call"
    ELSE IF signal = "sell" THEN "short_put"
    ELSE "short_strangle"

getStrategyType(signal) ==
    IF signal = "buy" THEN "short_put"
    ELSE IF signal = "sell" THEN "short_call"
    ELSE "short_strangle"

\* symbol, name, assetClass, multiplier (in tenths) and maxNotional (dollars).
TRADEABLE_ASSETS ==
    << [symbol |-> "ES",  name |-> "E-mini S&P 500",  assetClass |-> "Equity Indices",
        multiplier |-> 500,    maxNotional |-> 500000],
       [symbol |-> "NQ",  name |-> "E-mini Nasdaq",   assetClass |-> "Equity Indices",
        multiplier |-> 200,    maxNotional |-> 500000],
       [symbol |-> "GC",  name |-> "Gold Futures",    assetClass |-> "Precious Metals",
        multiplier |-> 1000,   maxNotional |-> 500000],
       [symbol |-> "SI",  name |-> "Silver Futures",  assetClass |-> "Precious Metals",
        multiplier |-> 50000,  maxNotional |-> 500000],
       [symbol |-> "CL",  name |-> "Crude Oil",       assetClass |-> "Energy",
        multiplier |-> 10000,  maxNotional |-> 500000],
       [symbol |-> "NG",  name |-> "Natural Gas",     assetClass |-> "Energy",
        multiplier |-> 100000, maxNotional |-> 500000],
       [symbol |-> "HG",  name |-> "Copper Futures",  assetClass |-> "Industrial Metals",
        multiplier |-> 250000, maxNotional |-> 500000],
       [symbol |-> "ZW",  name |-> "Wheat Futures",   assetClass |-> "Agriculture",
        multiplier |-> 50000,  maxNotional |-> 500000],
       [symbol |-> "MBT", name |-> "Micro Bitcoin Futures", assetClass |-> "Cryptocurrency",
        multiplier |-> 1,      maxNotional |-> 500000] >>

----------------------------------------------------------------------------
(* lib/portfolio.ts                                                        *)

RISK_FREE_RATE == 40000
TARGET_DTE == 52
MAX_NOTIONAL_PER_ASSET == 500000
MAX_BUYING_POWER_PER_TRADE == 100000
TARGET_DELTA == 200000

\* Dollars in cents, and in 1/10000 $.
Cents(dollars) == dollars * 100

TenThousandths(dollars) == dollars * 10000

\* calculateNumberOfLots sizing a strangle with 22 percent.
calculateNumberOfLotsLowerPercentage(spotPrice, multiplier, maxNotional, strategyType) ==
    LET notionalPerContract == spotPrice * multiplier
        maxLotsFromNotional == Cents(maxNotional) \div notionalPerContract
        bpPercentage == IF strategyType = "short_strangle" THEN 22 ELSE 20
        buyingPowerPerLot == notionalPerContract * bpPercentage
        maxLotsFromBuyingPower ==
            TenThousandths(MAX_BUYING_POWER_PER_TRADE) \div buyingPowerPerLot
        maxLots == Min(maxLotsFromNotional, maxLotsFromBuyingPower)
    IN  IF notionalPerContract > Cents(MAX_NOTIONAL_PER_ASSET) THEN 0
        ELSE IF buyingPowerPerLot > TenThousandths(MAX_BUYING_POWER_PER_TRADE) THEN 0
        ELSE Max(1, maxLots)

\* calculateNumberOfLots taking the larger of the two lot counts.
calculateNumberOfLotsLarger(spotPrice, multiplier, maxNotional, strategyType) ==
    LET notionalPerContract == spotPrice * multiplier
        maxLotsFromNotional == Cents(maxNotional) \div notionalPerContract
        bpPercentage == IF strategyType = "short_strangle" THEN 25 ELSE 20
        buyingPowerPerLot == notionalPerContract * bpPercentage
        maxLotsFromBuyingPower ==
            TenThousandths(MAX_BUYING_POWER_PER_TRADE) \div buyingPowerPerLot
        maxLots == Max(maxLotsFromNotional, maxLotsFromBuyingPower)
    IN  IF notionalPerContract > Cents(MAX_NOTIONAL_PER_ASSET) THEN 0
        ELSE IF buyingPowerPerLot > TenThousandths(MAX_BUYING_POWER_PER_TRADE) THEN 0
        ELSE Max(1, maxLots)

\* spotPrice and multiplier are in tenths, so their product is in cents;
\* bpPercentage is in percent, so buyingPowerPerLot is in 1/10000 $.
calculateNumberOfLots(spotPrice, multiplier, maxNotional, strategyType) ==
    LET notionalPerContract == spotPrice * multiplier
        maxLotsFromNotional == Cents(maxNotional) \div notionalPerContract
        bpPercentage == IF strategyType = "short_strangle" THEN 25 ELSE 20
        buyingPowerPerLot == notionalPerContract * bpPercentage
        maxLotsFromBuyingPower ==
            TenThousandths(MAX_BUYING_POWER_PER_TRADE) \div buyingPowerPerLot
        maxLots == Min(maxLotsFromNotional, maxLotsFromBuyingPower)
    IN  IF notionalPerContract > Cents(MAX_NOTIONAL_PER_ASSET) THEN 0
        ELSE IF buyingPowerPerLot > TenThousandths(MAX_BUYING_POWER_PER_TRADE) THEN 0
        ELSE Max(1, maxLots)

\* In 1/10000 $.
calculateBuyingPower(spotPrice, strategyType, multiplier, numberOfLots) ==
    IF strategyType = "short_put" THEN spotPrice * 20 * multiplier * numberOfLots
    ELSE IF strategyType = "short_call" THEN spotPrice * 20 * multiplier * numberOfLots
    ELSE spotPrice * 25 * multiplier * numberOfLots

undefined == 0

\* The source's calculateOptionPrice(spotPrice, strike, ...): the price per
\* unit of spot times spotPrice (tenths of a dollar), in 1/10000 $.
PriceInDollars(spotPrice, pricePerSpot) ==
    IF pricePerSpot < 0 THEN -MulDiv(spotPrice, -pricePerSpot, LIMB)
    ELSE MulDiv(spotPrice, pricePerSpot, LIMB)

\* The ratio totalPremium / buyingPowerRequired, not multiplied by 100.
ReturnOnCapitalRatio(totalPremium, buyingPowerRequired) ==
    IF totalPremium < 0 THEN -MulDiv(-totalPremium, ONE, buyingPowerRequired)
    ELSE MulDiv(totalPremium, ONE, buyingPowerRequired)

\* (totalPremium / buyingPowerRequired) * 100, in units of 1/ONE percent.
ReturnOnCapital(totalPremium, buyingPowerRequired) ==
    IF totalPremium < 0 THEN -MulDiv(-totalPremium, 100 * ONE, buyingPowerRequired)
    ELSE MulDiv(totalPremium, 100 * ONE, buyingPowerRequired)

\* The record generateOptionStrategy returns once the lots are known.  Each
\* strike is computed once and then used, as the source's assignments to
\* strikePricePut and strikePriceCall do.
StrategyRecord(assetData, score, asset, strategyType, numberOfLots) ==
    LET iv == assetData.impliedVolatility
        timeToExpiry == DivFix(TARGET_DTE, 365)
        notionalValue == assetData.spotPrice * asset.multiplier * numberOfLots
        hasPut == strategyType # "short_call"
        hasCall == strategyType # "short_put"
        buyingPowerRequired ==
            calculateBuyingPower(assetData.spotPrice, strategyType, asset.multiplier,
                                 numberOfLots)
        Priced(strikePricePut, strikePriceCall) ==
            LET premiumPut ==
                    IF hasPut
                    THEN PriceInDollars(assetData.spotPrice,
                             calculateOptionPrice(strikePricePut, timeToExpiry,
                                                  RISK_FREE_RATE, iv, "put"))
                    ELSE undefined
                premiumCall ==
                    IF hasCall
                    THEN PriceInDollars(assetData.spotPrice,
                             calculateOptionPrice(strikePriceCall, timeToExpiry,
                                                  RISK_FREE_RATE, iv, "call"))
                    ELSE undefined
                premiumPerContract ==
                    IF strategyType = "short_put"
                    THEN MulDiv(premiumPut, asset.multiplier, 10)
                    ELSE IF strategyType = "short_call"
                    THEN MulDiv(premiumCall, asset.multiplier, 10)
                    ELSE MulDiv(premiumPut + premiumCall, asset.multiplier, 10)
                totalPremium == premiumPerContract * numberOfLots
            IN  [ symbol              |-> assetData.symbol,
                  assetName           |-> asset.name,
                  assetClass          |-> assetData.assetClass,
                  signal              |-> score.signal,
                  strategyType        |-> strategyType,
                  numberOfLots        |-> numberOfLots,
                  notionalValue       |-> notionalValue,
                  dte                 |-> TARGET_DTE,
                  spotPrice           |-> assetData.spotPrice,
                  iv                  |-> iv,
                  strikePricePut      |-> strikePricePut,
                  strikePriceCall     |-> strikePriceCall,
                  premiumPut          |-> IF premiumPut # 0
                                          THEN MulDiv(premiumPut, asset.multiplier, 10)
                                                   * numberOfLots
                                          ELSE undefined,
                  premiumCall         |-> IF premiumCall # 0
                                          THEN MulDiv(premiumCall, asset.multiplier, 10)
                                                   * numberOfLots
                                          ELSE undefined,
                  premiumPerContract  |-> premiumPerContract,
                  totalPremium        |-> totalPremium,
                  buyingPowerRequired |-> buyingPowerRequired,
                  returnOnCapital     |-> ReturnOnCapital(totalPremium,
                                                          buyingPowerRequired) ]
    IN  CHOOSE strategy \in
            { Priced(strikePricePut, strikePriceCall) :
                strikePricePut \in
                    {IF hasPut
                     THEN findStrikeForDelta(TARGET_DELTA, timeToExpiry, RISK_FREE_RATE,
                                             iv, "put")
                     ELSE undefined},
                strikePriceCall \in
                    {IF hasCall
                     THEN findStrikeForDelta(TARGET_DELTA, timeToExpiry, RISK_FREE_RATE,
                                             iv, "call")
                     ELSE undefined} } : TRUE

\* OptionStrategy | null, as a sequence of at most one record.
generateOptionStrategy(assetData, score) ==
    LET HasSymbol(a) == a.symbol = assetData.symbol
        asset == find(TRADEABLE_ASSETS, HasSymbol)
    IN  IF asset = << >> THEN << >>
        ELSE LET strategyType == getStrategyType(score.signal)
                 numberOfLots == calculateNumberOfLots(assetData.spotPrice,
                                     asset[1].multiplier, asset[1].maxNotional,
                                     strategyType)
             IN  IF numberOfLots = 0 THEN << >>
                 ELSE << StrategyRecord(assetData, score, asset[1], strategyType,
                                        numberOfLots) >>

\* PortfolioStep putting the new strategy in front of the earlier ones.
PortfolioStepInFront(strategiesSoFar, assetData, scoreList) ==
    LET HasClass(sc) == sc.assetClass = assetData.assetClass
        score == find(scoreList, HasClass)
    IN  IF score = << >> THEN strategiesSoFar
        ELSE generateOptionStrategy(assetData, score[1]) \o strategiesSoFar

\* PortfolioStep giving up the earlier strategies when an asset yields none.
PortfolioStepAbortOnSkip(strategiesSoFar, assetData, scoreList) ==
    LET HasClass(sc) == sc.assetClass = assetData.assetClass
        score == find(scoreList, HasClass)
    IN  IF score = << >> THEN << >>
        ELSE IF generateOptionStrategy(assetData, score[1]) = << >> THEN << >>
        ELSE strategiesSoFar \o generateOptionStrategy(assetData, score[1])

\* The body of generatePortfolio's for-loop for one assetData: the strategies
\* after it.
PortfolioStep(strategiesSoFar, assetData, scoreList) ==
    LET HasClass(sc) == sc.assetClass = assetData.assetClass
        score == find(scoreList, HasClass)
    IN  IF score = << >> THEN strategiesSoFar
        ELSE strategiesSoFar \o generateOptionStrategy(assetData, score[1])

\* generatePortfolio's loop from position k on.
RECURSIVE PortfolioLoop(_, _, _, _)
PortfolioLoop(list, scoreList, k, strategiesSoFar) ==
    IF k > Len(list) THEN strategiesSoFar
    ELSE PortfolioLoop(list, scoreList, k + 1,
                       PortfolioStep(strategiesSoFar, list[k], scoreList))

generatePortfolio(list, scoreList) == PortfolioLoop(list, scoreList, 1, << >>)

\* strategies.reduce((sum, s) => sum + s.<field>, 0) over the field's values.
RECURSIVE Sum(_)
Sum(amounts) ==
    IF amounts = << >> THEN 0 ELSE Head(amounts) + Sum(Tail(amounts))

\* The same sum for amounts in 1/10000 $, given in cents (rounded down): the
\* whole cents are added apart from the fractions, so that the total of
\* several buying powers of up to $100,000 stays within the integer width.
SumInCents(amounts) ==
    Sum([k \in DOMAIN amounts |-> amounts[k] \div 100])
        + (Sum([k \in DOMAIN amounts |-> amounts[k] % 100]) \div 100)

\* calculatePortfolioMetrics with avgReturnOnCapital taken as the mean of the
\* strategies' own returnOnCapital.
calculatePortfolioMetricsMeanOfReturns(strategyList) ==
    LET totalPremium ==
            SumInCents([k \in DOMAIN strategyList |-> strategyList[k].totalPremium])
        totalBuyingPower ==
            SumInCents([k \in DOMAIN strategyList |->
                            strategyList[k].buyingPowerRequired])
        totalNotional ==
            Sum([k \in DOMAIN strategyList |-> strategyList[k].notionalValue])
        avgReturnOnCapital ==
            IF totalBuyingPower > 0
            THEN Sum([k \in DOMAIN strategyList |-> strategyList[k].returnOnCapital])
                     \div Len(strategyList)
            ELSE 0
    IN  [ totalPremium       |-> totalPremium,
          totalBuyingPower   |-> totalBuyingPower,
          totalNotional      |-> totalNotional,
          avgReturnOnCapital |-> avgReturnOnCapital,
          monthlyReturn      |-> MulDiv(avgReturnOnCapital, 305, 10 * TARGET_DTE),
          numberOfTrades     |-> Len(strategyList) ]

\* portfolio.ts:225-240.  totalPremium and totalBuyingPower in cents,
\* totalNotional in cents, the two returns in 1/ONE percent; 30.5 / TARGET_DTE
\* is 305 / (10 * TARGET_DTE).
calculatePortfolioMetrics(strategyList) ==
    LET totalPremium ==
            SumInCents([k \in DOMAIN strategyList |-> strategyList[k].totalPremium])
        totalBuyingPower ==
            SumInCents([k \in DOMAIN strategyList |->
                            strategyList[k].buyingPowerRequired])
        totalNotional ==
            Sum([k \in DOMAIN strategyList |-> strategyList[k].notionalValue])
        avgReturnOnCapital ==
            IF totalBuyingPower > 0
            THEN ReturnOnCapital(totalPremium, totalBuyingPower)
            ELSE 0
        monthlyReturn ==
            IF totalBuyingPower > 0
            THEN IF avgReturnOnCapital < 0
                 THEN -MulDiv(-avgReturnOnCapital, 305, 10 * TARGET_DTE)
                 ELSE MulDiv(avgReturnOnCapital, 305, 10 * TARGET_DTE)
            ELSE 0
    IN  [ totalPremium       |-> totalPremium,
          totalBuyingPower   |-> totalBuyingPower,
          totalNotional      |-> totalNotional,
          avgReturnOnCapital |-> avgReturnOnCapital,
          monthlyReturn      |-> monthlyReturn,
          numberOfTrades     |-> Len(strategyList) ]

----------------------------------------------------------------------------
(* Inputs.                                                                 *)

MaxAssets == 2
MaxCommodities == 2
VolDivisions == 8

\* Values no operation is using.
Idle == << >>

Directions == {"rising", "falling", "stable"}
Policies == {"QE", "QT", "neutral"}

USRates == [country : {"USA"}, direction : Directions, policy : Policies]

OtherRate == [country |-> "EU", direction |-> "falling", policy |-> "QE"]

\* interest_rates rows of a snapshot: none, USA only, another country only,
\* another country before USA, or USA with direction and policy left empty.
RateLists ==
    {<< >>, << OtherRate >>} \cup {<< u >> : u \in USRates}
        \cup {<< OtherRate, u >> : u \in {r \in USRates : r.policy = "neutral"}}
        \cup {<< [country |-> "USA", direction |-> "", policy |-> "" ] >>}

ValuationLists ==
    {<< >>}
        \cup {<< [index |-> "S&P 500", level |-> l] >> : l \in {"cheap", "fair", "expensive"}}
        \cup {<< [index |-> "Nasdaq", level |-> "Cheap"],
                 [index |-> "S&P 500", level |-> "expensive"] >>}
        \cup {<< [index |-> "Nasdaq", level |-> "Cheap"] >>,
              << [index |-> "S&P 500", level |-> ""] >>}

CommodityNames == << "Gold", "Silver", "Crude Oil" >>

Biases == {"bullish", "neutral", "bearish"}

\* commodity_fundamentals rows of a snapshot: at most MaxCommodities of them,
\* for distinct commodities, from position k of CommodityNames on.
RECURSIVE CommodityListsFrom(_, _)
CommodityListsFrom(k, n) ==
    IF n = 0 \/ k > Len(CommodityNames) THEN {<< >>}
    ELSE CommodityListsFrom(k + 1, n)
           \cup {<< [name |-> CommodityNames[k], bias |-> b] >> \o rest :
                    b \in Biases, rest \in CommodityListsFrom(k + 1, n - 1)}

\* Those lists, and three whose records hold a bias that biasMap does not
\* know (the column's default is the empty string).
CommodityLists ==
    CommodityListsFrom(1, MaxCommodities)
        \cup {<< [name |-> "Gold", bias |-> ""] >>,
              << [name |-> "Gold", bias |-> ""], [name |-> "Silver", bias |-> "n/a"] >>,
              << [name |-> "Gold", bias |-> ""], [name |-> "Silver", bias |-> "bullish"] >>}

Cycles == {"expansion", "peak", "contraction", "trough", "Expansion", "unknown"}

Liquidities == {"abundant", "adequate", "tight", "crisis", "unknown"}

Macros ==
    [ businessCycle : Cycles, globalLiquidity : Liquidities, interestRates : RateLists,
      valuations : ValuationLists, commodities : CommodityLists ]

\* The US rate row of a given direction and policy.
USRate(direction, policy) ==
    [country |-> "USA", direction |-> direction, policy |-> policy]

Snapshot(businessCycle, globalLiquidity, interestRates) ==
    [ businessCycle |-> businessCycle, globalLiquidity |-> globalLiquidity,
      interestRates |-> interestRates, valuations |-> << >>, commodities |-> << >> ]

\* The snapshots the portfolio is generated for: one with every class buy,
\* one with every class but Precious Metals sell, and one with Equity Indices
\* buy at exactly +5 and Energy neutral.
PortfolioMacros ==
    { Snapshot("expansion", "abundant", << USRate("falling", "QE") >>),
      Snapshot("contraction", "crisis", << USRate("rising", "QT") >>),
      Snapshot("expansion", "abundant", << >>) }

\* asset_data rows: symbol, assetClass, spotPrice (tenths of a dollar) and
\* impliedVolatility (1/ONE).  ivRank plays no part in the computation.
\* Two rows that trade, one whose single contract is over the notional cap,
\* one of a class that has no score, one of a symbol that is not tradeable,
\* and one whose volatility is above 2.
AssetSamples ==
    { [symbol |-> "ES",  assetClass |-> "Equity Indices",  spotPrice |-> 58000,
       impliedVolatility |-> 150000],
      [symbol |-> "NG",  assetClass |-> "Energy",          spotPrice |-> 35,
       impliedVolatility |-> 500000],
      [symbol |-> "ES",  assetClass |-> "Equity Indices",  spotPrice |-> 120000,
       impliedVolatility |-> 150000],
      [symbol |-> "ES",  assetClass |-> "Fixed Income",    spotPrice |-> 58000,
       impliedVolatility |-> 150000],
      [symbol |-> "XX",  assetClass |-> "Energy",          spotPrice |-> 700,
       impliedVolatility |-> 300000],
      [symbol |-> "MBT", assetClass |-> "Cryptocurrency",  spotPrice |-> 950000,
       impliedVolatility |-> 2500000] }

AssetLists == UNION {[1..n -> AssetSamples] : n \in 0..MaxAssets}

\* Volatilities on a grid of 1/VolDivisions up to 2, some small ones, and one
\* above 2.
Volatilities ==
    {(k * ONE) \div VolDivisions : k \in 1..(2 * VolDivisions)}
        \cup {10000, 15000, 20000, 50000, 2500000}

Expiries == {7, 30, TARGET_DTE, 120}

\* Arguments of calculateNumberOfLots.
SpotPrices == {35, 45, 55, 300, 700, 26500, 58000, 96000, 120000, 200000, 950000}

Multipliers == {TRADEABLE_ASSETS[k].multiplier : k \in 1..Len(TRADEABLE_ASSETS)}

MaxNotionals == {400000, 450000, 500000, 600000}

StrategyTypes == {"short_put", "short_call", "short_strangle"}

\* One contract's notional up to which the sizer's products fit 32 bits.
RepresentableNotional == Cents(850000)

----------------------------------------------------------------------------
(* PortfolioPage.generateAnalysis: score the snapshot, then generate the   *)
(* portfolio asset by asset.  The snapshot has no high-conviction AI       *)
(* recommendation, so the scores reach generatePortfolio as calculated.    *)

Init ==
    /\ pc = "score"
    /\ macroData \in PortfolioMacros
    /\ assetDataList \in AssetLists
    /\ scores = Idle
    /\ idx = 0
    /\ strategies = Idle
    /\ search = Idle
    /\ sizing = Idle
    /\ metrics = Idle
    /\ pricing = Idle
    /\ page = Idle
    /\ app = Idle
    /\ factor = Idle

Score ==
    /\ pc = "score"
    /\ scores' = calculateAssetClassScores(macroData)
    /\ pc' = "generate"
    /\ idx' = 1
    /\ strategies' = << >>
    /\ UNCHANGED <<macroData, assetDataList, search, sizing, metrics, pricing, page, app, factor>>

GenerateStep ==
    /\ pc = "generate"
    /\ idx <= Len(assetDataList)
    /\ strategies' = PortfolioStep(strategies, assetDataList[idx], scores)
    /\ idx' = idx + 1
    /\ UNCHANGED <<pc, macroData, scores, assetDataList, search, sizing, metrics, pricing, page, app, factor>>

GenerateReturn ==
    /\ pc = "generate"
    /\ idx > Len(assetDataList)
    /\ pc' = "done"
    /\ UNCHANGED <<macroData, scores, assetDataList, idx, strategies, search, sizing, metrics, pricing, page, app, factor>>

\* PortfolioPage.tsx:133: the metrics of the portfolio just generated.
Metrics ==
    /\ pc = "done"
    /\ metrics' = calculatePortfolioMetrics(strategies)
    /\ pc' = "reported"
    /\ UNCHANGED <<macroData, scores, assetDataList, idx, strategies, search, sizing,
                   pricing, page, app, factor>>

Next == Score \/ GenerateStep \/ GenerateReturn \/ Metrics

Spec == Init /\ [][Next]_vars

----------------------------------------------------------------------------
(* calculateAssetClassScores over every snapshot.                          *)

InitScore ==
    /\ pc = "score"
    /\ macroData \in Macros
    /\ assetDataList = << >>
    /\ scores = Idle
    /\ idx = 0
    /\ strategies = Idle
    /\ search = Idle
    /\ sizing = Idle
    /\ metrics = Idle
    /\ pricing = Idle
    /\ page = Idle
    /\ app = Idle
    /\ factor = Idle

NextScore == Score

SpecScore == InitScore /\ [][NextScore]_vars

----------------------------------------------------------------------------
(* calculateNumberOfLots over its arguments.                               *)

InitLots ==
    /\ pc = "size"
    /\ sizing \in [ spotPrice : SpotPrices, multiplier : Multipliers,
                    maxNotional : MaxNotionals, strategyType : StrategyTypes,
                    numberOfLots : {0} ]
    /\ sizing.spotPrice <= RepresentableNotional \div sizing.multiplier
    /\ macroData = Idle
    /\ assetDataList = Idle
    /\ scores = Idle
    /\ idx = 0
    /\ strategies = Idle
    /\ search = Idle
    /\ metrics = Idle
    /\ pricing = Idle
    /\ page = Idle
    /\ app = Idle
    /\ factor = Idle

Size ==
    /\ pc = "size"
    /\ sizing' = [sizing EXCEPT !.numberOfLots =
                     calculateNumberOfLots(sizing.spotPrice, sizing.multiplier,
                                           sizing.maxNotional, sizing.strategyType)]
    /\ pc' = "sized"
    /\ UNCHANGED <<macroData, scores, assetDataList, idx, strategies, search, metrics, pricing, page, app, factor>>

NextLots == Size

SpecLots == InitLots /\ [][NextLots]_vars

----------------------------------------------------------------------------
(* findStrikeForDelta, one pass of its loop at a time.                     *)

InitSearch ==
    /\ pc = "search"
    /\ \E optionType \in {"put", "call"}, volatility \in Volatilities, dte \in Expiries :
          search = SearchStart(TARGET_DELTA, DivFix(dte, 365), RISK_FREE_RATE,
                               volatility, optionType)
    /\ macroData = Idle
    /\ assetDataList = Idle
    /\ scores = Idle
    /\ idx = 0
    /\ strategies = Idle
    /\ sizing = Idle
    /\ metrics = Idle
    /\ pricing = Idle
    /\ page = Idle
    /\ app = Idle
    /\ factor = Idle

\* A pass that narrows the bracket (bsm.ts:83-95).
SearchNarrow ==
    /\ pc = "search"
    /\ ~SearchStep(search).returned
    /\ search' = SearchStep(search)
    /\ UNCHANGED <<pc, macroData, scores, assetDataList, idx, strategies, sizing, metrics, pricing, page, app, factor>>

\* The return from the loop (bsm.ts:79-81) or after it (bsm.ts:98).
SearchReturn ==
    /\ pc = "search"
    /\ SearchStep(search).returned
    /\ search' = SearchStep(search)
    /\ pc' = "found"
    /\ UNCHANGED <<macroData, scores, assetDataList, idx, strategies, sizing, metrics, pricing, page, app, factor>>

NextSearch == SearchNarrow \/ SearchReturn

SpecSearch == InitSearch /\ [][NextSearch]_vars

\* The loop is sequential code: a pass that can run does run.  This is
\* WF_vars(NextSearch) with ENABLED <<NextSearch>>_vars written out: a pass
\* can run exactly when pc = "search", since SearchStep is defined for every
\* record and changes i or returned.
SearchFairness == []<>(pc # "search") \/ []<><<NextSearch>>_vars

SpecSearchFair == InitSearch /\ [][NextSearch]_vars /\ SearchFairness

----------------------------------------------------------------------------
(* calculateOptionPrice for a call and a put of the same arguments.       *)

PricingSpots == {35, 58000, 950000}

StrikeRatios == {(9 * ONE) \div 10, ONE, (11 * ONE) \div 10}

RiskFreeRates == {0, RISK_FREE_RATE}

InitPrice ==
    /\ pc = "price"
    /\ pricing \in [ spotPrice : PricingSpots, strikePrice : StrikeRatios,
                     timeToExpiry : {DivFix(dte, 365) : dte \in Expiries},
                     riskFreeRate : RiskFreeRates, volatility : Volatilities,
                     call : {0}, put : {0} ]
    /\ macroData = Idle
    /\ assetDataList = Idle
    /\ scores = Idle
    /\ idx = 0
    /\ strategies = Idle
    /\ search = Idle
    /\ sizing = Idle
    /\ metrics = Idle
    /\ page = Idle
    /\ app = Idle
    /\ factor = Idle

\* The two calls of calculateOptionPrice, each result in 1/10000 $.
Price ==
    /\ pc = "price"
    /\ pricing' =
          [pricing EXCEPT
              !.call = PriceInDollars(pricing.spotPrice,
                           calculateOptionPrice(pricing.strikePrice, pricing.timeToExpiry,
                               pricing.riskFreeRate, pricing.volatility, "call")),
              !.put  = PriceInDollars(pricing.spotPrice,
                           calculateOptionPrice(pricing.strikePrice, pricing.timeToExpiry,
                               pricing.riskFreeRate, pricing.volatility, "put"))]
    /\ pc' = "priced"
    /\ UNCHANGED <<macroData, scores, assetDataList, idx, strategies, search, sizing,
                   metrics, page, app, factor>>

NextPrice == Price

SpecPrice == InitPrice /\ [][NextPrice]_vars

----------------------------------------------------------------------------
(* components/AssetDataPage.tsx: the form and handleSave.                  *)

\* parseFloat of the strings a number input or a stored number gives, in
\* hundredths; << >> stands for NaN, which compares false with everything.
NaN == << >>

parseFloat(str) ==
    CASE str = "" -> NaN
      [] str = "-10" -> << -1000 >>
      [] str = "-1" -> << -100 >>
      [] str = "0" -> << 0 >>
      [] str = "0.25" -> << 25 >>
      [] str = "2" -> << 200 >>
      [] str = "2.01" -> << 201 >>
      [] str = "3.50" -> << 350 >>
      [] str = "50" -> << 5000 >>
      [] str = "100" -> << 10000 >>
      [] str = "101" -> << 10100 >>
      [] str = "5800" -> << 580000 >>
      [] OTHER -> NaN

isNaN(x) == x = NaN

\* The comparisons x <= n, x < n and x > n of JavaScript for a number n: false
\* when x is NaN.
LessEq(x, n) == x # NaN /\ x[1] <= n

Less(x, n) == x # NaN /\ x[1] < n

Greater(x, n) == x # NaN /\ x[1] > n

\* AssetDataPage.tsx:129: !asset.spotPrice || parseFloat(asset.spotPrice) <= 0
\* for some asset.
hasEmptySpot(assetData) ==
    \E k \in DOMAIN assetData :
        \/ assetData[k].spotPrice = ""
        \/ LessEq(parseFloat(assetData[k].spotPrice), 0)

\* hasInvalidIV without the upper limit of 2.
hasInvalidIVNoUpperLimit(assetData) ==
    \E k \in DOMAIN assetData :
        LET iv == parseFloat(assetData[k].impliedVolatility)
        IN  isNaN(iv) \/ LessEq(iv, 0)

\* AssetDataPage.tsx:135-138: isNaN(iv) || iv <= 0 || iv > 2 for some asset.
hasInvalidIV(assetData) ==
    \E k \in DOMAIN assetData :
        LET iv == parseFloat(assetData[k].impliedVolatility)
        IN  isNaN(iv) \/ LessEq(iv, 0) \/ Greater(iv, 200)

\* AssetDataPage.tsx:144-147: isNaN(ivRank) || ivRank < 0 || ivRank > 100 for
\* some asset.
hasInvalidIVRank(assetData) ==
    \E k \in DOMAIN assetData :
        LET ivRank == parseFloat(assetData[k].ivRank)
        IN  isNaN(ivRank) \/ Less(ivRank, 0) \/ Greater(ivRank, 10000)

\* The rows handleSave inserts (AssetDataPage.tsx:163-172).
insertData(assetData) ==
    [ k \in DOMAIN assetData |->
        [ symbol             |-> assetData[k].symbol,
          asset_name         |-> assetData[k].name,
          asset_class        |-> assetData[k].assetClass,
          spot_price         |-> parseFloat(assetData[k].spotPrice),
          implied_volatility |-> parseFloat(assetData[k].impliedVolatility),
          iv_rank            |-> parseFloat(assetData[k].ivRank),
          manual_override    |-> TRUE ] ]

\* What the three inputs of one form row can hold: a valid triple, the two
\* valid triples at the limits, and triples with one field empty, below or
\* above its range.
FieldSamples ==
    { <<"5800", "0.25", "50">>, <<"3.50", "2", "0">>, <<"5800", "0.25", "100">>,
      <<"", "0.25", "50">>, <<"0", "0.25", "50">>, <<"-10", "0.25", "50">>,
      <<"5800", "", "50">>, <<"5800", "0", "50">>, <<"5800", "2.01", "50">>,
      <<"5800", "0.25", "">>, <<"5800", "0.25", "-1">>, <<"5800", "0.25", "101">> }

\* The form: one row per asset, for the first MaxAssets of TRADEABLE_ASSETS.
Forms ==
    { [ k \in 1..MaxAssets |->
          [ symbol            |-> TRADEABLE_ASSETS[k].symbol,
            name              |-> TRADEABLE_ASSETS[k].name,
            assetClass        |-> TRADEABLE_ASSETS[k].assetClass,
            spotPrice         |-> f[k][1],
            impliedVolatility |-> f[k][2],
            ivRank            |-> f[k][3] ] ] :
        f \in [1..MaxAssets -> FieldSamples] }

\* The asset_data rows of the snapshot before the page is used: none, or
\* those of an earlier save.
StoredRows ==
    {<< >>,
     insertData([ k \in 1..MaxAssets |->
                    [ symbol            |-> TRADEABLE_ASSETS[k].symbol,
                      name              |-> TRADEABLE_ASSETS[k].name,
                      assetClass        |-> TRADEABLE_ASSETS[k].assetClass,
                      spotPrice         |-> "100",
                      impliedVolatility |-> "0.25",
                      ivRank            |-> "50" ] ])}

\* message of the error a failed request returns.
ErrorMessages == {"", "permission denied"}

\* page: the form (assetData), the error and loading states, the asset_data
\* rows of the snapshot, the requests and callbacks the running handleSave
\* has made so far, and the rows that were stored when it made its delete
\* request (previous).
InitSave ==
    /\ pc = "form"
    /\ page \in [ assetData : Forms, error : {"", "Failed to save asset data"},
                  loading : {FALSE}, rows : StoredRows, calls : {<< >>},
                  previous : {<< >>} ]
    /\ macroData = Idle
    /\ assetDataList = Idle
    /\ scores = Idle
    /\ idx = 0
    /\ strategies = Idle
    /\ search = Idle
    /\ sizing = Idle
    /\ metrics = Idle
    /\ pricing = Idle
    /\ app = Idle
    /\ factor = Idle

\* handleSave up to a failed validation (AssetDataPage.tsx:126-152).
SaveRejected ==
    /\ pc = "form"
    /\ \/ /\ hasEmptySpot(page.assetData)
          /\ page' = [page EXCEPT
                         !.error = "Please enter valid spot prices for all assets",
                         !.calls = << >>]
       \/ /\ ~hasEmptySpot(page.assetData)
          /\ hasInvalidIV(page.assetData)
          /\ page' = [page EXCEPT
                         !.error = "Implied Volatility must be between 0 and 2 (e.g., 0.25 for 25%)",
                         !.calls = << >>]
       \/ /\ ~hasEmptySpot(page.assetData)
          /\ ~hasInvalidIV(page.assetData)
          /\ hasInvalidIVRank(page.assetData)
          /\ page' = [page EXCEPT !.error = "IV Rank must be between 0 and 100",
                                  !.calls = << >>]
    /\ UNCHANGED <<pc, macroData, scores, assetDataList, idx, strategies, search,
                   sizing, metrics, pricing, app, factor>>

\* handleSave up to the delete request (AssetDataPage.tsx:126-161).
SaveDelete ==
    /\ pc = "form"
    /\ ~hasEmptySpot(page.assetData)
    /\ ~hasInvalidIV(page.assetData)
    /\ ~hasInvalidIVRank(page.assetData)
    /\ page' = [page EXCEPT !.error = "", !.loading = TRUE, !.calls = << "delete" >>,
                            !.previous = page.rows]
    /\ pc' = "deleting"
    /\ UNCHANGED <<macroData, scores, assetDataList, idx, strategies, search,
                   sizing, metrics, pricing, app, factor>>

\* The catch and finally blocks (AssetDataPage.tsx:182-187).
Caught(message) ==
    /\ page' = [page EXCEPT
                   !.error = IF message # "" THEN message
                             ELSE "Failed to save asset data",
                   !.loading = FALSE]
    /\ pc' = "form"

\* The delete request answers; on success the insert request is made
\* (AssetDataPage.tsx:157-177).
SaveInsert ==
    /\ pc = "deleting"
    /\ \/ /\ page' = [page EXCEPT !.rows = << >>,
                                  !.calls = Append(page.calls, "insert")]
          /\ pc' = "inserting"
       \/ \E message \in ErrorMessages : Caught(message)
    /\ UNCHANGED <<macroData, scores, assetDataList, idx, strategies, search,
                   sizing, metrics, pricing, app, factor>>

\* The insert request answers; on success onComplete is called
\* (AssetDataPage.tsx:175-187).
SaveComplete ==
    /\ pc = "inserting"
    /\ \/ /\ page' = [page EXCEPT !.rows = insertData(page.assetData),
                                  !.calls = Append(page.calls, "onComplete"),
                                  !.loading = FALSE]
          /\ pc' = "completed"
       \/ \E message \in ErrorMessages : Caught(message)
    /\ UNCHANGED <<macroData, scores, assetDataList, idx, strategies, search,
                   sizing, metrics, pricing, app, factor>>

NextSave == SaveRejected \/ SaveDelete \/ SaveInsert \/ SaveComplete

SpecSave == InitSave /\ [][NextSave]_vars

----------------------------------------------------------------------------
(* The five factor functions, each applied to its field of a snapshot and  *)
(* to an asset class, configured or not.                                   *)

\* The commodities the questionnaire stores (QuestionnairePage COMMODITIES).
COMMODITIES == << "Gold", "Silver", "Crude Oil", "Natural Gas", "Wheat", "Copper" >>

\* commodity_fundamentals rows for at most n distinct commodities, from
\* position k of COMMODITIES on.
RECURSIVE FundamentalsFrom(_, _)
FundamentalsFrom(k, n) ==
    IF n = 0 \/ k > Len(COMMODITIES) THEN {<< >>}
    ELSE FundamentalsFrom(k + 1, n)
           \cup {<< [name |-> COMMODITIES[k], bias |-> b] >> \o rest :
                    b \in Biases, rest \in FundamentalsFrom(k + 1, n - 1)}

\* The classes a factor is asked for: the configured ones, the one the
\* functions know but no asset has, and one they do not know.
FactorClasses ==
    {ASSET_CLASSES[k] : k \in 1..Len(ASSET_CLASSES)} \cup {"Fixed Income", "Currencies"}

\* Snapshots that vary the cycle and the liquidity, the rates and the
\* valuations, or the commodities.
FactorMacros ==
    [ businessCycle : Cycles, globalLiquidity : Liquidities, interestRates : {<< >>},
      valuations : {<< >>}, commodities : {<< >>} ]
      \cup [ businessCycle : {"expansion"}, globalLiquidity : {"tight"},
             interestRates : RateLists, valuations : ValuationLists,
             commodities : {<< >>} ]
      \cup [ businessCycle : {"peak"}, globalLiquidity : {"adequate"},
             interestRates : {<< >>}, valuations : {<< >>},
             commodities : FundamentalsFrom(1, MaxCommodities)
                             \cup {<< [name |-> "Copper", bias |-> "Bullish"] >>,
                                   << [name |-> "Wheat", bias |-> ""] >>} ]

InitFactor ==
    /\ pc = "factor"
    /\ factor \in [ macro : FactorMacros, assetClass : FactorClasses, result : {Idle} ]
    /\ macroData = Idle
    /\ assetDataList = Idle
    /\ scores = Idle
    /\ idx = 0
    /\ strategies = Idle
    /\ search = Idle
    /\ sizing = Idle
    /\ metrics = Idle
    /\ pricing = Idle
    /\ page = Idle
    /\ app = Idle

\* The five calls of calculateAssetClassScores' loop body, unrounded.
Factors ==
    /\ pc = "factor"
    /\ pc' = "factored"
    /\ factor' =
         [factor EXCEPT !.result =
            [ businessCycleScore |->
                  getBusinessCycleScore(factor.macro.businessCycle, factor.assetClass),
              liquidityScore |->
                  getLiquidityScore(factor.macro.globalLiquidity, factor.assetClass),
              interestRateScore |->
                  getInterestRateScore(factor.macro.interestRates, factor.assetClass),
              valuationScore |->
                  getValuationScore(factor.macro.valuations, factor.assetClass),
              commodityScore |->
                  getCommodityScore(factor.macro.commodities, factor.assetClass) ]]
    /\ UNCHANGED <<macroData, scores, assetDataList, idx, strategies, search, sizing,
                   metrics, pricing, page, app>>

NextFactor == Factors

SpecFactor == InitFactor /\ [][NextFactor]_vars

----------------------------------------------------------------------------
(* App (bundled in lib/portfolio.ts) and QuestionnairePage.handleSubmit.   *)
(* app.session is the session the auth client holds; app.signingOut,       *)
(* app.submit and app.save are the positions of the pending async calls.   *)

null == "null"

Pages ==
    {"questionnaire", "dashboard", "recommendations", "transparency", "assetdata",
     "portfolio", "options", "previous"}

\* The macro_snapshots ids a questionnaire submit or the history can yield.
SnapshotIds == {"s1", "s2"}

Users == {"u1"}

\* App's useState initial values (portfolio.ts:471-474), with the session of
\* the auth client either absent or kept from an earlier visit.
InitApp ==
    /\ pc = "app"
    /\ app \in [ user : {null}, loading : {TRUE}, currentPage : {"questionnaire"},
                 currentSnapshotId : {""}, session : Users \cup {null},
                 signingOut : {FALSE}, submit : {"idle"}, save : {"idle"} ]
    /\ macroData = Idle
    /\ assetDataList = Idle
    /\ scores = Idle
    /\ idx = 0
    /\ strategies = Idle
    /\ search = Idle
    /\ sizing = Idle
    /\ metrics = Idle
    /\ pricing = Idle
    /\ page = Idle
    /\ factor = Idle

AppUnchanged ==
    UNCHANGED <<pc, macroData, scores, assetDataList, idx, strategies, search, sizing,
                metrics, pricing, page, factor>>

\* The navigation bar and the page are rendered (portfolio.ts:534-546).
Rendered == ~app.loading /\ app.user # null

\* A page that needs a snapshot is rendered (portfolio.ts:657-681).
RenderedPage(name) ==
    Rendered /\ app.currentPage = name /\ app.currentSnapshotId # ""

\* checkUser, on mount and as AuthPage's onAuth (portfolio.ts:486-490, 543).
checkUser ==
    /\ pc = "app"
    /\ app.loading \/ app.user = null
    /\ app' = [app EXCEPT !.user = app.session, !.loading = FALSE]
    /\ AppUnchanged

\* The auth client changes its session (sign in, expiry, sign out elsewhere)
\* and calls the onAuthStateChange subscriber (portfolio.ts:479-481).
onAuthStateChange ==
    /\ pc = "app"
    /\ \E session \in Users \cup {null} :
          /\ session # app.session
          /\ app' = [app EXCEPT !.session = session, !.user = session]
    /\ AppUnchanged

\* handleSignOut up to its await (portfolio.ts:492-493).
handleSignOut ==
    /\ pc = "app"
    /\ Rendered
    /\ ~app.signingOut
    /\ app' = [app EXCEPT !.session = null, !.signingOut = TRUE]
    /\ AppUnchanged

\* handleSignOut after its await (portfolio.ts:494-496).
handleSignOutResume ==
    /\ pc = "app"
    /\ app.signingOut
    /\ app' = [app EXCEPT !.user = null, !.currentPage = "questionnaire",
                          !.currentSnapshotId = "", !.signingOut = FALSE]
    /\ AppUnchanged

\* portfolio.ts:499-502.
handleQuestionnaireComplete(snapshotId) ==
    [app EXCEPT !.currentSnapshotId = snapshotId, !.currentPage = "dashboard"]

\* portfolio.ts:516-518.
handleAssetDataComplete == [app EXCEPT !.currentPage = "portfolio"]

\* handleGoHome, from the bar or from PreviousAnalysesPage
\* (portfolio.ts:524-527, 556, 654).
handleGoHome ==
    /\ pc = "app"
    /\ Rendered
    /\ app' = [app EXCEPT !.currentPage = "questionnaire", !.currentSnapshotId = ""]
    /\ AppUnchanged

\* handleLoadSnapshot, from PreviousAnalysesPage (portfolio.ts:529-532, 651-653).
handleLoadSnapshot ==
    /\ pc = "app"
    /\ Rendered
    /\ app.currentPage = "previous"
    /\ \E snapshotId \in SnapshotIds :
          app' = [app EXCEPT !.currentSnapshotId = snapshotId, !.currentPage = "dashboard"]
    /\ AppUnchanged

\* The buttons of the bar that call setCurrentPage (portfolio.ts:565-628).
NavigationButton ==
    /\ pc = "app"
    /\ Rendered
    /\ \E name \in {"previous", "dashboard", "recommendations", "transparency",
                    "assetdata", "portfolio"} :
          /\ name # "previous" => app.currentSnapshotId # ""
          /\ app' = [app EXCEPT !.currentPage = name]
    /\ AppUnchanged

\* handleAnalyze, handleContinueToTransparency, handleContinueToAssetData and
\* the two onBack callbacks, each from the page it is passed to
\* (portfolio.ts:504-514, 657-678).
PageButton ==
    /\ pc = "app"
    /\ \E step \in { <<"dashboard", "recommendations">>,
                     <<"recommendations", "transparency">>,
                     <<"transparency", "assetdata">>,
                     <<"assetdata", "transparency">>,
                     <<"portfolio", "assetdata">> } :
          /\ RenderedPage(step[1])
          /\ app' = [app EXCEPT !.currentPage = step[2]]
    /\ AppUnchanged

\* handleSubmit up to the insert request of the snapshot (part_000:73-91):
\* without a user it throws and ends in its catch block.
handleSubmit ==
    /\ pc = "app"
    /\ Rendered
    /\ app.currentPage = "questionnaire"
    /\ app.submit = "idle"
    /\ app' = [app EXCEPT !.submit = IF app.session = null THEN "idle" ELSE "snapshot"]
    /\ AppUnchanged

\* The snapshot insert answers (part_000:79-92), with an error or with the
\* new row; the three inserts that follow are requested (part_000:94-121).
handleSubmitInserted ==
    /\ pc = "app"
    /\ app.submit = "snapshot"
    /\ \E snapshotError \in BOOLEAN :
          /\ snapshotError \/ app.session # null
          /\ app' = [app EXCEPT !.submit = IF snapshotError THEN "idle" ELSE "rows"]
    /\ AppUnchanged

\* The three inserts have answered, whatever their result, and onComplete is
\* called with the id of the snapshot (part_000:102-123, portfolio.ts:649).
handleSubmitComplete ==
    /\ pc = "app"
    /\ app.submit = "rows"
    /\ \E snapshotId \in SnapshotIds :
          app' = [handleQuestionnaireComplete(snapshotId) EXCEPT !.submit = "idle"]
    /\ AppUnchanged

\* AssetDataPage.handleSave is started (AssetDataPage.tsx:126-161).
handleSave ==
    /\ pc = "app"
    /\ RenderedPage("assetdata")
    /\ app.save = "idle"
    /\ app' = [app EXCEPT !.save = "pending"]
    /\ AppUnchanged

\* handleSave ends: in onComplete (AssetDataPage.tsx:180, portfolio.ts:670)
\* or in its catch block.
handleSaveReturn ==
    /\ pc = "app"
    /\ app.save = "pending"
    /\ \E failed \in BOOLEAN :
          app' = [(IF failed THEN app ELSE handleAssetDataComplete) EXCEPT !.save = "idle"]
    /\ AppUnchanged

NextApp ==
    \/ checkUser
    \/ onAuthStateChange
    \/ handleSignOut
    \/ handleSignOutResume
    \/ handleGoHome
    \/ handleLoadSnapshot
    \/ PageButton
    \/ NavigationButton
    \/ handleSubmit
    \/ handleSubmitInserted
    \/ handleSubmitComplete
    \/ handleSave
    \/ handleSaveReturn

SpecApp == InitApp /\ [][NextApp]_vars

----------------------------------------------------------------------------
(* Properties.                                                             *)

\* The sum of the five factor scores of a class, in hundredths.
FactorSum(macro, assetClass) ==
    getBusinessCycleScore(macro.businessCycle, assetClass)
        + getLiquidityScore(macro.globalLiquidity, assetClass)
        + getInterestRateScore(macro.interestRates, assetClass)
        + getValuationScore(macro.valuations, assetClass)
        + getCommodityScore(macro.commodities, assetClass)

StrategyOfSignal ==
    [ signal \in {"buy", "sell", "neutral"} |->
        CASE signal = "buy" -> "short_put"
          [] signal = "sell" -> "short_call"
          [] signal = "neutral" -> "short_strangle" ]

\* C2: getStrategyType returns short_put for buy, short_call for sell and
\* short_strangle for neutral, and every strategy generatePortfolio has
\* produced carries the strategy type this mapping gives for the signal
\* stored in the same record.
C2_SignalToStrategy ==
    /\ \A signal \in DOMAIN StrategyOfSignal :
          getStrategyType(signal) = StrategyOfSignal[signal]
    /\ \A k \in 1..Len(strategies) :
          /\ strategies[k].signal \in DOMAIN StrategyOfSignal
          /\ strategies[k].strategyType = StrategyOfSignal[strategies[k].signal]

\* A finished portfolio that holds a short put from a buy signal and a short
\* strangle from a neutral one.
C2_Witness ==
    /\ pc = "done"
    /\ \E k \in 1..Len(strategies) :
          strategies[k].signal = "buy" /\ strategies[k].strategyType = "short_put"
    /\ \E k \in 1..Len(strategies) :
          strategies[k].signal = "neutral" /\ strategies[k].strategyType = "short_strangle"

\* One contract's notional (cents) and buying power (1/10000 $) for the
\* arguments being sized.
SizedNotional == sizing.spotPrice * sizing.multiplier

SizedBuyingPower ==
    SizedNotional * (IF sizing.strategyType = "short_strangle" THEN 25 ELSE 20)

Percentage(a, b) ==
    IF a < 0 THEN -MulDiv(-a, 100 * ONE, b) ELSE MulDiv(a, 100 * ONE, b)

\* C5: every strategy record generateOptionStrategy has returned satisfies
\* returnOnCapital = totalPremium / buyingPowerRequired x 100 for the
\* totalPremium and buyingPowerRequired stored in the same record, whatever
\* its strategy type.
C5_ReturnOnCapital ==
    \A k \in 1..Len(strategies) :
        /\ strategies[k].buyingPowerRequired > 0
        /\ strategies[k].returnOnCapital =
               Percentage(strategies[k].totalPremium, strategies[k].buyingPowerRequired)

\* A finished portfolio with a short put and a short strangle, both with a
\* positive premium and return on capital.
C5_Witness ==
    /\ pc = "done"
    /\ \E k \in 1..Len(strategies) :
          /\ strategies[k].strategyType = "short_put"
          /\ strategies[k].totalPremium > 0
          /\ strategies[k].returnOnCapital > 0
    /\ \E k \in 1..Len(strategies) :
          /\ strategies[k].strategyType = "short_strangle"
          /\ strategies[k].totalPremium > 0
          /\ strategies[k].returnOnCapital > 0

\* The number of assets generatePortfolio's loop has gone through.
Processed == IF pc = "score" THEN 0 ELSE idx - 1

\* An asset that has a score for its class, a tradeable symbol and a non-zero
\* lot count for the strategy of its class's signal.
Qualifies(assetData) ==
    \E c \in DOMAIN scores :
        /\ scores[c].assetClass = assetData.assetClass
        /\ \E a \in DOMAIN TRADEABLE_ASSETS :
              /\ TRADEABLE_ASSETS[a].symbol = assetData.symbol
              /\ calculateNumberOfLots(assetData.spotPrice,
                     TRADEABLE_ASSETS[a].multiplier, TRADEABLE_ASSETS[a].maxNotional,
                     StrategyOfSignal[scores[c].signal]) # 0

\* The positions of the qualifying assets among the first n, in order.
QualifyingPositions(n) ==
    SelectSeq([i \in 1..n |-> i], LAMBDA i : Qualifies(assetDataList[i]))

\* C6: generatePortfolio returns exactly one strategy for each input asset
\* that has a score for its class, a symbol in TRADEABLE_ASSETS and a non-zero
\* lot count, and none for any other asset; the strategies are in the order
\* of their assets, so the output is never longer than the input.
C6_OnePerQualifyingAsset ==
    LET positions == QualifyingPositions(Processed)
    IN  /\ Len(strategies) = Len(positions)
        /\ Len(strategies) <= Len(assetDataList)
        /\ \A k \in 1..Len(positions) :
              /\ strategies[k].symbol = assetDataList[positions[k]].symbol
              /\ strategies[k].assetClass = assetDataList[positions[k]].assetClass
              /\ strategies[k].spotPrice = assetDataList[positions[k]].spotPrice
              /\ strategies[k].iv = assetDataList[positions[k]].impliedVolatility

\* A finished portfolio of one strategy, for the second of two assets, the
\* first having been skipped.
C6_Witness ==
    /\ pc = "done"
    /\ Len(assetDataList) = 2
    /\ ~Qualifies(assetDataList[1])
    /\ Qualifies(assetDataList[2])
    /\ Len(strategies) = 1
    /\ strategies[1].symbol = assetDataList[2].symbol

Reverse(seq) == [k \in 1..Len(seq) |-> seq[Len(seq) + 1 - k]]

\* The portfolios generated for each of the first n assets alone, one after
\* the other.
RECURSIVE EachAlone(_)
EachAlone(n) ==
    IF n = 0 THEN << >>
    ELSE EachAlone(n - 1) \o generatePortfolio(<< assetDataList[n] >>, scores)

\* C7: the strategy generatePortfolio produces for an asset depends only on
\* that asset's data and its class's score: the finished portfolio holds the
\* strategies each asset gets when it is the only one in the list, and the
\* portfolio of the list in the opposite order is the same strategies in the
\* opposite order, so no other asset, skipped or not, changes or prevents it.
C7_PerAssetIndependence ==
    pc = "done" =>
        /\ strategies = EachAlone(Len(assetDataList))
        /\ generatePortfolio(Reverse(assetDataList), scores) = Reverse(strategies)

\* A finished portfolio of two assets of which the second is skipped and the
\* first still has the strategy it has alone.
C7_Witness ==
    /\ pc = "done"
    /\ Len(assetDataList) = 2
    /\ generatePortfolio(<< assetDataList[2] >>, scores) = << >>
    /\ Len(strategies) = 1
    /\ strategies = generatePortfolio(<< assetDataList[1] >>, scores)

\* C8: an asset with spot price <= 0, or volatility <= 0 or > 2, is rejected
\* by the pricing model and does not appear in the generated portfolio.
C8_InvalidInputsExcluded ==
    \A k \in 1..Len(strategies) :
        /\ strategies[k].spotPrice > 0
        /\ strategies[k].iv > 0
        /\ strategies[k].iv <= 2 * ONE

\* A finished portfolio holding a strategy priced at a volatility of 2.5.
C8_Witness ==
    /\ pc = "done"
    /\ \E k \in 1..Len(strategies) :
          /\ strategies[k].symbol = "MBT"
          /\ strategies[k].iv = 2500000
          /\ strategies[k].numberOfLots >= 1

\* The ends of the bracket the specification gives for the search in
\* progress, per unit of spot.
BracketLow == IF search.optionType = "put" THEN ONE \div 2 ELSE ONE

BracketHigh == IF search.optionType = "put" THEN ONE ELSE (3 * ONE) \div 2

\* calculateDelta at a strike, for the inputs of the search in progress.
DeltaAt(strikePrice) ==
    calculateDelta(strikePrice, search.timeToExpiry, search.riskFreeRate,
                   search.volatility, search.optionType)

\* The distance of the delta at the returned strike from the signed target.
RoundTripError == Abs(DeltaAt(search.strike) - search.adjustedDelta)

\* The signed target lies strictly between the deltas at the bracket's ends
\* (delta falls as the strike rises, for puts and calls alike).
TargetBracketed ==
    /\ DeltaAt(BracketHigh) < search.adjustedDelta
    /\ search.adjustedDelta < DeltaAt(BracketLow)

\* 0 < volatility <= 2 and time-to-expiry > 0.
ValidSearchInput ==
    /\ search.volatility > 0
    /\ search.volatility <= 2 * ONE
    /\ search.timeToExpiry > 0

SearchReturnsMidpoint ==
    /\ pc \in {"search", "found"} =>
          /\ search.i >= 0
          /\ search.i <= maxIterations
          /\ search.returned <=> (pc = "found")
    /\ pc = "found" =>
          /\ search.strike = Midpoint(search.lowerBound, search.upperBound)
          /\ search.strike >= BracketLow
          /\ search.strike <= BracketHigh
          /\ search.i < maxIterations => RoundTripError < tolerance

\* C11: findStrikeForDelta always terminates and always returns a strike: it
\* makes at most 100 passes, returns the midpoint as soon as its delta is
\* within 0.001 of the target, and when the 100 passes are used up it returns
\* the midpoint of the final bracket.
C11_SearchTerminates == []SearchReturnsMidpoint /\ <>(pc = "found")

\* A search that used all its passes without reaching the tolerance and
\* returned the midpoint of its final bracket.
C11_Witness ==
    /\ pc = "found"
    /\ search.i = maxIterations
    /\ RoundTripError >= tolerance
    /\ search.strike = Midpoint(search.lowerBound, search.upperBound)

----------------------------------------------------------------------------
\* The value of one field of every strategy, in list order.
PremiumsOf(list) == [k \in DOMAIN list |-> list[k].totalPremium]

BuyingPowersOf(list) == [k \in DOMAIN list |-> list[k].buyingPowerRequired]

NotionalsOf(list) == [k \in DOMAIN list |-> list[k].notionalValue]

\* C12: calculatePortfolioMetrics returns totalPremium, totalBuyingPower and
\* totalNotional as the sums of the strategies' totalPremium,
\* buyingPowerRequired and notionalValue, numberOfTrades as the number of
\* strategies, avgReturnOnCapital as totalPremium / totalBuyingPower * 100 and
\* monthlyReturn as avgReturnOnCapital * 30.5 / 52; when the total buying
\* power is not positive, as for the empty list, both returns are 0.
C12_PortfolioMetrics ==
    pc = "reported" =>
        /\ metrics.totalPremium = SumInCents(PremiumsOf(strategies))
        /\ metrics.totalBuyingPower = SumInCents(BuyingPowersOf(strategies))
        /\ metrics.totalNotional = Sum(NotionalsOf(strategies))
        /\ metrics.numberOfTrades = Len(strategies)
        /\ strategies = << >> =>
              /\ metrics.totalPremium = 0
              /\ metrics.totalBuyingPower = 0
              /\ metrics.totalNotional = 0
        /\ IF metrics.totalBuyingPower > 0
           THEN /\ metrics.totalPremium >= 0
                /\ metrics.avgReturnOnCapital =
                       MulDiv(metrics.totalPremium, 100 * ONE, metrics.totalBuyingPower)
                /\ metrics.monthlyReturn =
                       MulDiv(metrics.avgReturnOnCapital, 305, 520)
           ELSE /\ metrics.avgReturnOnCapital = 0
                /\ metrics.monthlyReturn = 0

\* A reported portfolio of two strategies whose joint return differs from the
\* mean of their own returns.
C12_Witness ==
    /\ pc = "reported"
    /\ Len(strategies) = 2
    /\ metrics.numberOfTrades = 2
    /\ metrics.totalBuyingPower > 0
    /\ metrics.avgReturnOnCapital > 0
    /\ metrics.avgReturnOnCapital * 2 #
           strategies[1].returnOnCapital + strategies[2].returnOnCapital
    /\ metrics.monthlyReturn > 0
    /\ metrics.monthlyReturn < metrics.avgReturnOnCapital

----------------------------------------------------------------------------
\* The snapshot has every field but the business cycle at its neutral value:
\* adequate liquidity, a stable direction and a neutral policy for USA, a fair
\* S&P 500 valuation, and a neutral bias for every commodity it lists.
NeutralMidpoint ==
    /\ macroData.globalLiquidity = "adequate"
    /\ \E k \in DOMAIN macroData.interestRates :
          /\ macroData.interestRates[k] = USRate("stable", "neutral")
          /\ \A j \in 1..(k - 1) : macroData.interestRates[j].country # "USA"
    /\ \E k \in DOMAIN macroData.valuations :
          /\ macroData.valuations[k] = [index |-> "S&P 500", level |-> "fair"]
          /\ \A j \in 1..(k - 1) : macroData.valuations[j].index # "S&P 500"
    /\ \A k \in DOMAIN macroData.commodities :
          macroData.commodities[k].bias = "neutral"

\* C13 as stated: for a snapshot at the neutral midpoint, the total score of
\* every class is 0.
C13_NeutralTotalsZero ==
    (pc = "generate" /\ NeutralMidpoint) =>
        \A k \in DOMAIN scores : scores[k].totalScore = 0

\* C13, amended: for a snapshot at the neutral midpoint the interest-rate,
\* valuation and commodity scores of every class are 0 and the liquidity score
\* is +1 (+1.5 for Cryptocurrency), so the total score is the business-cycle
\* score plus the liquidity score; it is 0 only for Equity Indices in a trough.
C13_NeutralTotalIsCyclePlusLiquidity ==
    (pc = "generate" /\ NeutralMidpoint) =>
        \A k \in DOMAIN scores :
            /\ scores[k].interestRateScore = 0
            /\ scores[k].valuationScore = 0
            /\ scores[k].commodityScore = 0
            /\ scores[k].liquidityScore =
                   IF scores[k].assetClass = "Cryptocurrency" THEN 15 ELSE 10
            /\ scores[k].totalScore =
                   scores[k].businessCycleScore + scores[k].liquidityScore
            /\ scores[k].totalScore = 0 <=>
                   /\ scores[k].assetClass = "Equity Indices"
                   /\ macroData.businessCycle = "trough"

\* A neutral-midpoint snapshot in an expansion, listing two neutral
\* commodities: Equity Indices total +3 and Cryptocurrency +3.1.
C13_Witness ==
    /\ pc = "generate"
    /\ NeutralMidpoint
    /\ macroData.businessCycle = "expansion"
    /\ Len(macroData.commodities) = 2
    /\ scores[1].totalScore = 30
    /\ scores[6].totalScore = 31

----------------------------------------------------------------------------
----------------------------------------------------------------------------
\* No record of the list has the key, so Array.prototype.find returns undefined.
NoRecord(list, Key(_), key) == \A k \in DOMAIN list : Key(list[k]) # key

CountryOf(r) == r.country

IndexOf(v) == v.index

\* The snapshot has no record for any commodity mapped to the class.
NoMappedCommodity(assetClass) ==
    \A k \in DOMAIN macroData.commodities :
        \A j \in DOMAIN assetCommodityMap(assetClass) :
            macroData.commodities[k].name # assetCommodityMap(assetClass)[j]

\* Every record of a commodity mapped to the class holds a bias that is none
\* of bullish, neutral, bearish.
MappedBiasesUnrecognised(assetClass) ==
    \A k \in DOMAIN macroData.commodities :
        (\E j \in DOMAIN assetCommodityMap(assetClass) :
            macroData.commodities[k].name = assetCommodityMap(assetClass)[j])
        => toLowerCase(macroData.commodities[k].bias)
               \notin {"bullish", "neutral", "bearish"}

----------------------------------------------------------------------------
\* C16: for every snapshot and asset class the reported totalScore is the sum
\* of the five factor scores rounded to one decimal, and it equals the sum of
\* the five reported one-decimal component scores of the same record.
C16_TotalIsSumOfComponents ==
    pc = "generate" =>
        \A k \in DOMAIN scores :
            /\ \E total \in {FactorSum(macroData, ASSET_CLASSES[k])} :
                  /\ scores[k].totalScore * 10 <= total + 5
                  /\ scores[k].totalScore * 10 > total - 5
            /\ scores[k].totalScore =
                   scores[k].businessCycleScore + scores[k].liquidityScore
                     + scores[k].interestRateScore + scores[k].valuationScore
                     + scores[k].commodityScore

\* Cryptocurrency in an expansion with abundant liquidity and falling rates:
\* 1.6 + 4.5 + 1.4 = 7.5, three components with a decimal.
C16_Witness ==
    /\ pc = "generate"
    /\ scores[6].assetClass = "Cryptocurrency"
    /\ scores[6].businessCycleScore = 16
    /\ scores[6].liquidityScore = 45
    /\ scores[6].interestRateScore = 14
    /\ scores[6].totalScore = 75

----------------------------------------------------------------------------
\* The variance term (volatility^2 / 2) * timeToExpiry of d1 is not rounded
\* to 0, so that d1 of an at-the-money option at rate 0 is positive.
VarianceTermResolved ==
    MulFix(MulFix(pricing.volatility, pricing.volatility) \div 2,
           pricing.timeToExpiry) > 0

\* C17: for every spot, volatility and time to expiry, with the strike equal
\* to the spot and a risk-free rate of 0, calculateOptionPrice returns the
\* same price for the call and for the put.
C17_PutCallSymmetry ==
    (pc = "priced" /\ pricing.strikePrice = ONE /\ pricing.riskFreeRate = 0) =>
        pricing.call = pricing.put

\* The symmetry does hold wherever the variance term is resolved: then
\* d1 > 0 > d2 and both prices are spot * (1 - prob(d1) - prob(|d2|)).
SymmetryWhenVarianceResolved ==
    ( /\ pc = "priced"
      /\ pricing.strikePrice = ONE
      /\ pricing.riskFreeRate = 0
      /\ VarianceTermResolved ) => pricing.call = pricing.put

\* An at-the-money pair at rate 0 whose variance term is rounded to 0: d1 is
\* 0, normalCDF(0) is used for both N(d1) and N(-d1), and since twice
\* normalCDF(0) is not 1 the put costs more than the call.
C17_Witness ==
    /\ pc = "priced"
    /\ pricing.strikePrice = ONE
    /\ pricing.riskFreeRate = 0
    /\ ~VarianceTermResolved
    /\ D1(pricing.strikePrice, pricing.timeToExpiry, pricing.riskFreeRate,
          pricing.volatility) = 0
    /\ 2 * normalCDF(0) < ONE
    /\ pricing.put > pricing.call

----------------------------------------------------------------------------
\* C18: the maximum notional per asset is $450,000: every position of a
\* portfolio generated for the configured TRADEABLE_ASSETS has a notionalValue
\* of at most 450,000, with at least 1 lot.
C18_NotionalAtMost450000 ==
    pc = "done" =>
        \A k \in DOMAIN strategies :
            /\ strategies[k].notionalValue <= Cents(450000)
            /\ strategies[k].numberOfLots >= 1

\* Natural Gas at $3.50 under a buy signal: 14 lots of $35,000, a position
\* of $490,000.
C18_Witness ==
    /\ pc = "done"
    /\ \E k \in DOMAIN strategies :
          /\ strategies[k].symbol = "NG"
          /\ strategies[k].spotPrice = 35
          /\ strategies[k].strategyType = "short_put"
          /\ strategies[k].numberOfLots = 14
          /\ strategies[k].notionalValue = Cents(490000)
          /\ strategies[k].notionalValue <= Cents(MAX_NOTIONAL_PER_ASSET)

----------------------------------------------------------------------------
\* An asset_data row of a configured asset: its symbol and its class are
\* those of one entry of TRADEABLE_ASSETS.
Configured(assetData) ==
    \E a \in DOMAIN TRADEABLE_ASSETS :
        /\ TRADEABLE_ASSETS[a].symbol = assetData.symbol
        /\ TRADEABLE_ASSETS[a].assetClass = assetData.assetClass

\* C19: calculateAssetClassScores returns exactly one score per supported
\* class, with pairwise distinct class names in the order of ASSET_CLASSES;
\* every asset of TRADEABLE_ASSETS belongs to one of those classes, so
\* generatePortfolio finds a score for every configured asset and leaves one
\* out only when its lot count is 0.
C19_OneScorePerClass ==
    pc \in {"generate", "done"} =>
        /\ Len(scores) = Len(ASSET_CLASSES)
        /\ \A k \in DOMAIN scores : scores[k].assetClass = ASSET_CLASSES[k]
        /\ \A j, k \in DOMAIN scores :
              j # k => scores[j].assetClass # scores[k].assetClass
        /\ \A a \in DOMAIN TRADEABLE_ASSETS :
              \E k \in DOMAIN scores :
                  scores[k].assetClass = TRADEABLE_ASSETS[a].assetClass
        /\ \A i \in 1..Processed :
              Configured(assetDataList[i]) =>
                  /\ \E k \in DOMAIN scores :
                        scores[k].assetClass = assetDataList[i].assetClass
                  /\ \/ \E k \in DOMAIN strategies :
                           /\ strategies[k].symbol = assetDataList[i].symbol
                           /\ strategies[k].assetClass = assetDataList[i].assetClass
                           /\ strategies[k].spotPrice = assetDataList[i].spotPrice
                     \/ ~Qualifies(assetDataList[i])

\* A finished portfolio for a Cryptocurrency asset, the last class, and an
\* Equity Indices asset, the first: both configured, both with a strategy.
C19_Witness ==
    /\ pc = "done"
    /\ Len(assetDataList) = 2
    /\ assetDataList[1].symbol = "MBT"
    /\ assetDataList[2].symbol = "ES"
    /\ Configured(assetDataList[1])
    /\ Configured(assetDataList[2])
    /\ Len(scores) = 6
    /\ Len(strategies) = 2
    /\ strategies[1].assetClass = "Cryptocurrency"
    /\ strategies[2].assetClass = "Equity Indices"

----------------------------------------------------------------------------
\* The values of one form row are in range: spot price > 0, 0 < implied
\* volatility <= 2, 0 <= IV rank <= 100.
ValidAsset(asset) ==
    LET spot == parseFloat(asset.spotPrice)
        iv == parseFloat(asset.impliedVolatility)
        ivRank == parseFloat(asset.ivRank)
    IN  /\ spot # NaN
        /\ spot[1] > 0
        /\ iv # NaN
        /\ iv[1] > 0
        /\ iv[1] <= 2 * 100
        /\ ivRank # NaN
        /\ ivRank[1] >= 0
        /\ ivRank[1] <= 100 * 100

AllValid == \A k \in DOMAIN page.assetData : ValidAsset(page.assetData[k])

ValidationMessages ==
    { "Please enter valid spot prices for all assets",
      "Implied Volatility must be between 0 and 2 (e.g., 0.25 for 25%)",
      "IV Rank must be between 0 and 100" }

\* A handleSave that has made a request or called onComplete was given valid
\* values for every asset.
RequestsOnlyWhenValid ==
    pc \in {"form", "deleting", "inserting", "completed"} =>
        /\ page.calls # << >> => AllValid
        /\ pc # "form" => AllValid

\* handleSave on a form with a value out of range changes the error message
\* and nothing else.
RejectionOnlySetsError ==
    (pc = "form" /\ ~AllValid) =>
        /\ pc' = "form"
        /\ page'.error \in ValidationMessages
        /\ page' = [page EXCEPT !.error = page'.error]

\* C20: handleSave deletes nothing, inserts nothing and does not call
\* onComplete unless every asset has a spot price > 0, an implied volatility
\* in (0, 2] and an IV rank in [0, 100]; on a validation failure it only sets
\* the error message.
C20_ValidatedBeforeSaving == []RequestsOnlyWhenValid /\ [][RejectionOnlySetsError]_vars

\* A form whose implied volatility is just above 2 after handleSave: the
\* message about the volatility is shown, no request was made and the stored
\* rows are still there.
C20_Witness ==
    /\ pc = "form"
    /\ ~AllValid
    /\ \E k \in DOMAIN page.assetData : page.assetData[k].impliedVolatility = "2.01"
    /\ page.error = "Implied Volatility must be between 0 and 2 (e.g., 0.25 for 25%)"
    /\ page.calls = << >>
    /\ page.loading = FALSE
    /\ page.rows # << >>

----------------------------------------------------------------------------
\* C21: if handleSave's insert fails after its delete has succeeded, the
\* asset data stored for the snapshot before the save is still present
\* afterwards, and onComplete is not called.
C21_FailedSaveRolledBack ==
    (pc = "form" /\ page.calls = << "delete", "insert" >>) =>
        /\ page.rows = page.previous
        /\ \A k \in DOMAIN page.calls : page.calls[k] # "onComplete"

\* A handleSave whose delete succeeded and whose insert failed, on a snapshot
\* that had rows: the error is shown, onComplete was not called, and the
\* snapshot has no rows left.
C21_Witness ==
    /\ pc = "form"
    /\ page.calls = << "delete", "insert" >>
    /\ page.previous # << >>
    /\ page.rows = << >>
    /\ page.error = "permission denied"
    /\ page.loading = FALSE

----------------------------------------------------------------------------

\* C22: whenever the App has no signed-in user and no sign-out is still
\* awaiting its answer, currentSnapshotId is empty and currentPage is
\* 'questionnaire', whatever calls started before the sign-out have
\* completed since.
C22_LogoutClearsSession ==
    (pc = "app" /\ app.user = null /\ ~app.signingOut) =>
        /\ app.currentSnapshotId = ""
        /\ app.currentPage = "questionnaire"

\* handleSignOut has completed, nobody is signed in, and the submit that was
\* pending has since completed and set the snapshot and the page.
C22_Witness ==
    /\ pc = "app"
    /\ app.user = null
    /\ app.session = null
    /\ ~app.signingOut
    /\ app.submit = "idle"
    /\ app.currentSnapshotId \in SnapshotIds
    /\ app.currentPage = "dashboard"

----------------------------------------------------------------------------

\* The positions of the records for USA in a list of interest_rates rows.
USAPositions(rates) == {k \in DOMAIN rates : rates[k].country = "USA"}

\* C23: the interest-rate factor is 0 when the snapshot has no record for
\* USA; otherwise its base is +2 when that record's direction is falling or
\* its policy QE, else -2 when the direction is rising or the policy QT, else
\* 0, and the factor is the base for Equity Indices, minus the base for Fixed
\* Income, 1.2 times the base for Precious Metals and 0.7 times the base for
\* any other class.  Records of other countries play no part.
C23_InterestRateFactor ==
    pc = "factored" =>
        LET rates == factor.macro.interestRates
            assetClass == factor.assetClass
            interestRateScore == factor.result.interestRateScore
        IN  /\ USAPositions(rates) = {} => interestRateScore = 0
            /\ \A k \in USAPositions(rates) :
                  (\A j \in USAPositions(rates) : k <= j) =>
                      \E base \in {-2, 0, 2} :
                          /\ base = 2 <=>
                                (rates[k].direction = "falling" \/ rates[k].policy = "QE")
                          /\ base = -2 <=>
                                /\ rates[k].direction # "falling"
                                /\ rates[k].policy # "QE"
                                /\ (rates[k].direction = "rising" \/ rates[k].policy = "QT")
                          /\ assetClass = "Equity Indices" => interestRateScore = base * 100
                          /\ assetClass = "Fixed Income" => interestRateScore = -(base * 100)
                          /\ assetClass = "Precious Metals" => interestRateScore = base * 120
                          /\ assetClass \notin {"Equity Indices", "Fixed Income", "Precious Metals"}
                                => interestRateScore = base * 70

\* The record for USA says falling and QT: the easing test comes first, the
\* base is +2 and Fixed Income gets -2.
C23_Witness ==
    /\ pc = "factored"
    /\ factor.assetClass = "Fixed Income"
    /\ factor.macro.interestRates = << USRate("falling", "QT") >>
    /\ factor.result.interestRateScore = -200

----------------------------------------------------------------------------

\* The commodities the claim maps to a class.
MappedCommodities(assetClass) ==
    CASE assetClass = "Precious Metals" -> {"Gold", "Silver"}
      [] assetClass = "Energy" -> {"Crude Oil", "Natural Gas"}
      [] assetClass = "Industrial Metals" -> {"Copper"}
      [] assetClass = "Agriculture" -> {"Wheat"}
      [] OTHER -> {}

BiasValue(bias) ==
    CASE toLowerCase(bias) = "bullish" -> 2
      [] toLowerCase(bias) = "bearish" -> -2
      [] OTHER -> 0

\* The sum of the bias values of the records at positions k.. whose commodity
\* is among names.
RECURSIVE BiasTotal(_, _, _)
BiasTotal(commodities, names, k) ==
    IF k > Len(commodities) THEN 0
    ELSE (IF commodities[k].name \in names THEN BiasValue(commodities[k].bias) ELSE 0)
            + BiasTotal(commodities, names, k + 1)

\* C24: the commodity factor of a class is the arithmetic mean of the bias
\* values (bullish +2, neutral 0, bearish -2) of those commodities mapped to
\* the class that have a record in the snapshot, and 0 when the class has no
\* mapping or none of its commodities has a record.
C24_CommodityFactorIsMean ==
    pc = "factored" =>
        LET commodities == factor.macro.commodities
            names == MappedCommodities(factor.assetClass)
            present == {k \in DOMAIN commodities : commodities[k].name \in names}
        IN  IF present = {}
            THEN factor.result.commodityScore = 0
            ELSE factor.result.commodityScore * Cardinality(present)
                    = 100 * BiasTotal(commodities, names, 1)

\* Energy with a record for Natural Gas only, bearish: the mean is over that
\* one record.
C24_Witness ==
    /\ pc = "factored"
    /\ factor.assetClass = "Energy"
    /\ factor.macro.commodities = << [name |-> "Natural Gas", bias |-> "bearish"] >>
    /\ factor.result.commodityScore = -200

----------------------------------------------------------------------------

\* The base the claim gives a business cycle phase.
CycleBase(cycle) ==
    CASE toLowerCase(cycle) = "expansion" -> 2
      [] toLowerCase(cycle) = "peak" -> 1
      [] toLowerCase(cycle) = "contraction" -> -2
      [] toLowerCase(cycle) = "trough" -> -1
      [] OTHER -> 0

\* C25: the business-cycle factor is the base of the phase (expansion +2,
\* peak +1, contraction -2, trough -1) for Equity Indices, minus the base for
\* Fixed Income, half the absolute value of the base, so never negative, for
\* Precious Metals, and 0.8 times the base for any other class.
C25_BusinessCycleFactor ==
    pc = "factored" =>
        \E base \in {CycleBase(factor.macro.businessCycle)} :
            /\ factor.assetClass = "Equity Indices"
                  => factor.result.businessCycleScore = base * 100
            /\ factor.assetClass = "Fixed Income"
                  => factor.result.businessCycleScore + base * 100 = 0
            /\ factor.assetClass = "Precious Metals"
                  => /\ factor.result.businessCycleScore >= 0
                     /\ factor.result.businessCycleScore * 2 \in {base * 100, -(base * 100)}
            /\ factor.assetClass \notin {"Equity Indices", "Fixed Income", "Precious Metals"}
                  => factor.result.businessCycleScore = base * 80

\* A contraction gives Precious Metals +1.
C25_Witness ==
    /\ pc = "factored"
    /\ factor.assetClass = "Precious Metals"
    /\ factor.macro.businessCycle = "contraction"
    /\ factor.result.businessCycleScore = 100

----------------------------------------------------------------------------

\* The base the claim gives a liquidity condition.
LiquidityBase(liquidity) ==
    CASE toLowerCase(liquidity) = "abundant" -> 3
      [] toLowerCase(liquidity) = "adequate" -> 1
      [] toLowerCase(liquidity) = "tight" -> -2
      [] toLowerCase(liquidity) = "crisis" -> -3
      [] OTHER -> 0

\* C26: the liquidity factor is the absolute value of the base (abundant +3,
\* adequate +1, tight -2, crisis -3) for Precious Metals when the base is
\* negative, 1.5 times the base for Cryptocurrency, and the base itself in
\* every other case.
C26_LiquidityFactor ==
    pc = "factored" =>
        \E base \in {LiquidityBase(factor.macro.globalLiquidity)} :
            IF factor.assetClass = "Precious Metals" /\ base < 0
            THEN factor.result.liquidityScore = (0 - base) * 100
            ELSE IF factor.assetClass = "Cryptocurrency"
            THEN factor.result.liquidityScore = base * 150
            ELSE factor.result.liquidityScore = base * 100

\* A liquidity crisis gives Precious Metals +3.
C26_Witness ==
    /\ pc = "factored"
    /\ factor.assetClass = "Precious Metals"
    /\ factor.macro.globalLiquidity = "crisis"
    /\ factor.result.liquidityScore = 300

----------------------------------------------------------------------------

\* The positions of the records for the S&P 500 in a list of valuations.
SPPositions(valuations) == {k \in DOMAIN valuations : valuations[k].index = "S&P 500"}

\* C27: the valuation factor is 0 for every class but Equity Indices and for
\* Equity Indices without a record for 'S&P 500'; with one it is +2 when that
\* record's level is cheap, 0 when it is fair and -2 when it is expensive.
\* Records of other indices play no part.
C27_ValuationFactor ==
    pc = "factored" =>
        LET valuations == factor.macro.valuations
            valuationScore == factor.result.valuationScore
        IN  /\ factor.assetClass # "Equity Indices" => valuationScore = 0
            /\ SPPositions(valuations) = {} => valuationScore = 0
            /\ factor.assetClass = "Equity Indices" =>
                  \A k \in SPPositions(valuations) :
                      /\ toLowerCase(valuations[k].level) = "cheap" => valuationScore = 200
                      /\ toLowerCase(valuations[k].level) = "fair" => valuationScore = 0
                      /\ toLowerCase(valuations[k].level) = "expensive" => valuationScore = -200

\* An expensive S&P 500 behind a cheap Nasdaq: Equity Indices gets -2.
C27_Witness ==
    /\ pc = "factored"
    /\ factor.assetClass = "Equity Indices"
    /\ Len(factor.macro.valuations) = 2
    /\ factor.macro.valuations[1].index = "Nasdaq"
    /\ factor.macro.valuations[2].level = "expensive"
    /\ factor.result.valuationScore = -200

----------------------------------------------------------------------------

----------------------------------------------------------------------------

\* The percentage of the notional that is buying power, by strategy type.
BuyingPowerPercent(strategyType) == IF strategyType = "short_strangle" THEN 25 ELSE 20

----------------------------------------------------------------------------

\* The strike whose delta is the signed target lies in the bracket: the
\* delta at lowerBound is at or above the target and the delta at upperBound
\* at or below it (delta falls as the strike rises).
TargetInBracket ==
    /\ DeltaAt(search.lowerBound) >= search.adjustedDelta
    /\ search.adjustedDelta >= DeltaAt(search.upperBound)

BracketWidth == search.upperBound - search.lowerBound

\* A pass of the loop that narrows the bracket.
NarrowingPass ==
    /\ pc = "search"
    /\ search'.i = search.i + 1

\* C30 as the specification states it: when the strike of the signed target
\* lies in the initial bracket, after every iteration it lies between
\* lowerBound and upperBound and the bracket is exactly half as wide as
\* before the iteration, for puts and for calls.  Halving exactly at every
\* iteration is having, after i iterations, the initial width over 2^i.
C30_BracketHalvesExactly ==
    (pc = "search" /\ TargetBracketed) =>
        /\ TargetInBracket
        /\ BracketWidth * 2^search.i = BracketHigh - BracketLow

\* C30, amended: when the strike of the signed target lies in the initial
\* bracket, after every iteration it lies between lowerBound and upperBound,
\* and the bracket is half as wide as before the iteration up to the rounding
\* of the midpoint to a representable number: twice the new width differs
\* from the old width by at most one unit in the last place, and by nothing
\* when the midpoint is representable.
C30_BracketHalves ==
    /\ []((pc = "search" /\ TargetBracketed) => TargetInBracket)
    /\ [][NarrowingPass =>
             /\ 2 * BracketWidth' - BracketWidth \in {-1, 0, 1}
             /\ BracketWidth % 2 = 0 => 2 * BracketWidth' = BracketWidth]_vars

\* A search for a bracketed target after six passes and more, whose bracket
\* still holds the target and has a width that cannot be halved exactly.
C30_Witness ==
    /\ pc = "search"
    /\ TargetBracketed
    /\ search.i >= 6
    /\ TargetInBracket
    /\ BracketWidth % 2 = 1
    /\ BracketWidth < (BracketHigh - BracketLow) \div 32

====
